---- MODULE Spec2Model ----
(***************************************************************************)
(* Verification model of AlehScm/demo-bot: the liquidity (accumulation     *)
(* zone) indicator, the two trend engines, the candle cache and the market *)
(* data controller.                                                        *)
(*                                                                         *)
(* Conventions                                                             *)
(*  - Decimal prices are integers counted in tenths (Decimal("98.7") is    *)
(*    987); every comparison the code makes after a Decimal division is    *)
(*    made here by cross-multiplication, so no rounding is introduced.     *)
(*  - Python's 0-based positions are kept 1-based (a window position p is  *)
(*    Python's p-1); a missing position is NoIdx (0), a missing value None.*)
(*  - float strengths and confidences are fixed-point integers counted in  *)
(*    1/10000 (StrengthOne is 1.0).                                        *)
(***************************************************************************)
EXTENDS Integers, Sequences, FiniteSets, TLC

VARIABLES
    candles,      \* the candle sequence the caller is assembling (oldest first)
    liqZones,     \* LiquidityIndicator._zones
    liqSignal,    \* the LiquiditySignal the last analyze call returned, if any
    liqInput,     \* the candle sequence that call was given
    liqHeld,      \* the signal whose zone list is the engine's own list: as returned, and its list now
    fed,          \* candles handed to the engines so far, over all sequences
    mergeIn,      \* the zone list handed to _merge_overlapping_zones
    mergeOnce,    \* what the merge pass returned for mergeIn, if it has run
    mergeTwice,   \* what the merge pass returned for that result, if it has run
    mergeSignal,  \* what analyze returns once detection has produced mergeIn, if it has run
    tiSwings,       \* TrendIndicator._swings
    tiLastBos,      \* TrendIndicator._last_bos
    tiCurrentTrend, \* TrendIndicator._current_trend
    tiSignal,       \* the TrendSignal the last TrendIndicator.analyze returned, if any
    tiInput,        \* the candle sequence that call was given
    tdSwings,       \* TrendDetector._swings
    tdResult,       \* the TrendResult the last TrendDetector.analyze returned, if any
    tdInput,        \* the candle sequence that call was given
    calls,          \* analyze calls made on the trend engines so far
    cacheFile,      \* the parsed content of the cache file: key -> entry
    now,            \* the clock datetime.utcnow() reads, in milliseconds
    fetchCalls,     \* calls of the fetch use case made by the controller
    written,        \* key -> the candle list the last CandleCache.set on it was given
    loaded,         \* the last CandleCache.get: its key and what it returned
    lastLatest,     \* the last MarketDataController.latest request and its effect
    routeFeed,      \* the candles the data provider (or cache) returns, as their timestamps
    routeHanded,    \* the analyze calls of the last request: engine and candles handed over
    decided,        \* the GenerateTradingDecision.execute calls so far: candles fetched, decisions returned
    windowCandles,  \* the candles of one window handed to LiquidityIndicator._analyze_window
    windowZone      \* what _analyze_window returned for them: None before the call

liqVars == <<candles, liqZones, liqSignal, liqInput, liqHeld, fed>>
mergeVars == <<mergeIn, mergeOnce, mergeTwice, mergeSignal>>

liqEngineVars == <<liqZones, liqSignal, liqInput, liqHeld>>
tiVars == <<tiSwings, tiLastBos, tiCurrentTrend, tiSignal, tiInput>>
tdVars == <<tdSwings, tdResult, tdInput>>
trendVars == <<tiVars, tdVars, calls>>

cacheVars == <<cacheFile, now, fetchCalls, written, loaded, lastLatest>>

routeVars == <<routeFeed, routeHanded>>

decisionVars == <<decided>>

windowVars == <<windowCandles, windowZone>>

vars == <<liqVars, mergeVars, trendVars, cacheVars, routeVars, decisionVars, windowVars>>

\* what the operations of one component leave alone
notLiqVars == <<mergeVars, trendVars, cacheVars, routeVars, decisionVars, windowVars>>
notMergeVars == <<liqVars, trendVars, cacheVars, routeVars, decisionVars, windowVars>>
notTrendVars == <<liqEngineVars, mergeVars, cacheVars, routeVars, decisionVars, windowVars>>
notCacheVars == <<liqVars, mergeVars, trendVars, routeVars, decisionVars, windowVars>>
notRouteVars == <<liqVars, mergeVars, trendVars, cacheVars, decisionVars, windowVars>>

\* the longest run of candles a behaviour feeds
MaxCandles == 5

\* Optional values: None is the empty sequence and a present value x is <<x>>
None == <<>>
Some(x) == <<x>>
NoIdx == 0

\* ------------------------------------------------------------------ helpers

Max(a, b) == IF a >= b THEN a ELSE b
Min(a, b) == IF a <= b THEN a ELSE b
Abs(a) == IF a < 0 THEN 0 - a ELSE a

RECURSIVE Sum(_)
Sum(s) == IF s = <<>> THEN 0 ELSE Head(s) + Sum(Tail(s))

RECURSIVE SeqMax(_)
SeqMax(s) == IF Len(s) = 1 THEN s[1] ELSE Max(Head(s), SeqMax(Tail(s)))

RECURSIVE SeqMin(_)
SeqMin(s) == IF Len(s) = 1 THEN s[1] ELSE Min(Head(s), SeqMin(Tail(s)))

Highs(w) == [i \in 1..Len(w) |-> w[i].high]
Lows(w) == [i \in 1..Len(w) |-> w[i].low]
Closes(w) == [i \in 1..Len(w) |-> w[i].close]
Volumes(w) == [i \in 1..Len(w) |-> w[i].volume]
Ranges(w) == [i \in 1..Len(w) |-> w[i].high - w[i].low]

\* x // d for d > 0, rounding toward minus infinity like the float it stands for
FloorDiv(x, d) == x \div d

StrengthOne == 100 * 100

\* ------------------------------------------------- LiquidityIndicatorSettings
\* The values the modelled engine is configured with.  Ratios are kept as
\* numerator/denominator pairs of the Decimal literal.

min_candles_in_zone == 3
max_range_percent_x10 == 45
min_strength_x100 == 30
min_boundary_touches == 1
max_zones == 2
min_gap_between_zones == 2
sc_volume_spike_ratio_x10 == 18
sc_range_spike_ratio_x10 == 16
min_downtrend_drop_percent_x10 == 10
downtrend_lookback == 3
max_candles_sc_to_ar == 2
min_secondary_tests == 1
spring_penetration_atr_x100 == 35
st_volume_contraction_x10 == 7

\* domain/indicators/liquidity/settings.py: the break thresholds the tests of
\* the seed-and-grow zone extension configure
break_invalid_pct_x100 == 20
break_confirm_candles == 2

\* ------------------------------------------------------- LiquidityIndicator

\* floor(num / den * 10000) for 0 <= num, 0 < den, computed in two steps so that
\* no intermediate product leaves the machine integers
ScaledRatio(num, den) ==
    LET q1 == (num * 100) \div den
        r1 == (num * 100) % den
    IN  q1 * 100 + (r1 * 100) \div den

\* min(num / den, 1.0) as a fixed-point float
CappedRatio(num, den) ==
    IF num >= den THEN StrengthOne ELSE ScaledRatio(num, den)

\* _average_range, _average_volume and the average close are sums divided by
\* len(window); they are carried as the sum, the divisor being Len(window)
SumRange(window) == Sum(Ranges(window))
SumVolume(window) == Sum(Volumes(window))
SumClose(window) == Sum(Closes(window))

\* candles[a:b] for 0 <= a <= b (Python slice, clipped to the sequence)
Slice(s, a, b) == SubSeq(s, a + 1, Min(b, Len(s)))

HasPreviousDowntrend(cs, start_idx) ==
    LET lookback == downtrend_lookback
        segment == IF start_idx < lookback THEN Slice(cs, 0, lookback)
                   ELSE Slice(cs, start_idx - lookback, start_idx)
    IN  IF Len(segment) < lookback THEN FALSE
        ELSE LET start_close == segment[1].close
                 end_close == segment[Len(segment)].close
                 lower_highs == Cardinality({i \in 2..Len(segment) :
                                    segment[i].high < segment[i - 1].high})
                 lower_lows == Cardinality({i \in 2..Len(segment) :
                                    segment[i].low < segment[i - 1].low})
             IN  IF start_close = 0 THEN FALSE
                 \* drop_percent < min_downtrend_drop_percent
                 ELSE IF (IF start_close > 0
                          THEN (start_close - end_close) * 1000
                                 < min_downtrend_drop_percent_x10 * start_close
                          ELSE (start_close - end_close) * 1000
                                 > min_downtrend_drop_percent_x10 * start_close)
                      THEN FALSE
                 ELSE lower_highs * 10 >= lookback * 6 /\ lower_lows * 10 >= lookback * 6

\* volume_ratio + range_ratio of window[i], times the positive factor
\* avg_volume * avg_range / len(window), which keeps the order of the scores
ScScore(window, i) ==
    window[i].volume * SumRange(window)
        + (window[i].high - window[i].low) * SumVolume(window)

IsSellingClimax(window, i) ==
    LET n == Len(window)
    IN  /\ window[i].volume * n * 10 >= sc_volume_spike_ratio_x10 * SumVolume(window)
        /\ (window[i].high - window[i].low) * n * 10
              >= sc_range_spike_ratio_x10 * SumRange(window)
        /\ window[i].close <= window[i].open

RECURSIVE ScLoop(_, _, _)
ScLoop(window, idx, sc_idx) ==
    IF idx > Len(window) THEN sc_idx
    ELSE IF SumRange(window) = 0 \/ SumVolume(window) = 0
         THEN ScLoop(window, idx + 1, sc_idx)
    ELSE IF IsSellingClimax(window, idx)
            /\ (sc_idx = NoIdx \/ ScScore(window, idx) > ScScore(window, sc_idx))
         THEN ScLoop(window, idx + 1, idx)
    ELSE ScLoop(window, idx + 1, sc_idx)

FindSellingClimax(window) == ScLoop(window, 1, NoIdx)

RECURSIVE PsLoop(_, _, _, _)
PsLoop(window, sc_idx, idx, ps_idx) ==
    IF idx >= sc_idx THEN ps_idx
    ELSE LET distance(k) == Abs(window[k].low - window[sc_idx].low)
             range_size == window[idx].high - window[idx].low
         IN  IF range_size * Len(window) * 100 <= SumRange(window) * 105
                /\ (ps_idx = NoIdx \/ distance(idx) > distance(ps_idx))
             THEN PsLoop(window, sc_idx, idx + 1, idx)
             ELSE PsLoop(window, sc_idx, idx + 1, ps_idx)

FindPreliminarySupport(window, sc_idx) ==
    IF sc_idx = 1 THEN NoIdx
    ELSE PsLoop(window, sc_idx, Max(1, sc_idx - 5), NoIdx)

RECURSIVE ArLoop(_, _, _, _, _)
ArLoop(window, sc_idx, idx, last, ar_idx) ==
    IF idx > last THEN ar_idx
    ELSE LET n == Len(window)
             range_size == window[idx].high - window[idx].low
             range_ok == range_size * n * 10 >= SumRange(window) * 8
             volume_ok == SumVolume(window) = 0
                          \/ window[idx].volume * n * 10 >= SumVolume(window) * 8
             closes_up == window[idx].close > window[idx].open
             distance(k) == window[k].high - window[sc_idx].low
             \* best_height starts at Decimal("-1"), ten tenths below zero
             best_height == IF ar_idx = NoIdx THEN 0 - 10 ELSE distance(ar_idx)
         IN  IF range_ok /\ volume_ok /\ closes_up /\ distance(idx) > best_height
             THEN ArLoop(window, sc_idx, idx + 1, last, idx)
             ELSE ArLoop(window, sc_idx, idx + 1, last, ar_idx)

\* _find_automatic_rally looking through the whole rest of the window
FindAutomaticRallyUncapped(window, sc_idx) ==
    LET lookahead == Len(window) - sc_idx
    IN  IF lookahead <= 0 THEN NoIdx
        ELSE ArLoop(window, sc_idx, sc_idx + 1, sc_idx + lookahead, NoIdx)

FindAutomaticRally(window, sc_idx) ==
    LET lookahead == Min(max_candles_sc_to_ar, Len(window) - sc_idx)
    IN  IF lookahead <= 0 THEN NoIdx
        ELSE ArLoop(window, sc_idx, sc_idx + 1, sc_idx + lookahead, NoIdx)

\* the ascending list st_indexes of _count_secondary_tests, as a set of positions
SecondaryTests(window, ar_idx, support, sc_volume) ==
    LET spread == SeqMax(Highs(window)) - SeqMin(Lows(window))
    IN  {idx \in (ar_idx + 1)..Len(window) :
            /\ (window[idx].low - support) * 100 <= spread * 35
            /\ (sc_volume = 0 \/ window[idx].volume * 10
                                    <= sc_volume * st_volume_contraction_x10)
            /\ (window[idx].high - window[idx].low) * 1000 <= Max(1, spread * 350)}

SetMin(S) == CHOOSE x \in S : \A y \in S : x <= y

RECURSIVE SpringLoop(_, _, _, _)
SpringLoop(window, support, sc_volume, idx) ==
    IF idx > Len(window) THEN NoIdx
    ELSE LET breaks_support ==
                 (support - window[idx].low) * Len(window) * 100
                     > SumRange(window) * spring_penetration_atr_x100
             closes_above == window[idx].close > support
             volume_ok == sc_volume = 0 \/ window[idx].volume * 10 <= sc_volume * 13
         IN  IF breaks_support /\ closes_above /\ volume_ok THEN idx
             ELSE SpringLoop(window, support, sc_volume, idx + 1)

FindSpring(window, support, sc_volume, from_idx) ==
    IF SumRange(window) * spring_penetration_atr_x100 <= 0 THEN NoIdx
    ELSE SpringLoop(window, support, sc_volume, from_idx)

CountBoundaryTouches(window, high, low) ==
    LET range_size == high - low
        upper_touches == Cardinality({i \in 1..Len(window) :
                             (high - window[i].high) * 100 <= range_size * 15})
        lower_touches == Cardinality({i \in 1..Len(window) :
                             (window[i].low - low) * 100 <= range_size * 15})
    IN  IF range_size = 0 THEN 0 ELSE Min(upper_touches, lower_touches)

\* _calculate_zone_strength; each float is a fixed-point integer (1.0 = StrengthOne)
RangeContribution(window, high_price, low_price) ==
    \* range_percent / max_range_percent
    \*   = (high - low) / avg_price * 100 / max_range_percent
    LET num == (high_price - low_price) * Len(window) * 1000
        den == max_range_percent_x10 * SumClose(window)
        range_factor == StrengthOne - CappedRatio(num, den)
    IN  (range_factor * 25) \div 100

CandleContribution(window) ==
    LET min_candles == min_candles_in_zone
        max_bonus_candles == min_candles * 3
        extra == Len(window) - min_candles
        candle_factor == IF extra <= 0 THEN 0
                         ELSE CappedRatio(extra, max_bonus_candles - min_candles)
    IN  (Max(0, candle_factor) * 18) \div 100

TouchContribution(touches) ==
    LET min_touches == min_boundary_touches
        max_touches == min_touches * 3
        extra == touches - min_touches
        touch_factor == IF extra <= 0 THEN 0
                        ELSE CappedRatio(extra, max_touches - min_touches)
    IN  (Max(0, touch_factor) * 20) \div 100

ConcentrationContribution(window, high_price, low_price) ==
    \* mid_price = (high + low) / 2; |close - mid| / mid = |2 close - (high + low)| / (high + low)
    LET twice_mid == high_price + low_price
        deviations == [i \in 1..Len(window) |->
                          IF twice_mid > 0 THEN Abs(2 * window[i].close - twice_mid) ELSE 0]
        concentration_factor ==
            IF twice_mid > 0
            THEN StrengthOne - CappedRatio(Sum(deviations) * 20, twice_mid * Len(window))
            ELSE StrengthOne
    IN  (Max(0, concentration_factor) * 15) \div 100

StructureContributionUncapped(window, sc_idx, st_count, spring_idx) ==
    LET sc_volume == window[sc_idx].volume
        sc_part == IF SumVolume(window) > 0
                   THEN (CappedRatio(sc_volume * Len(window), 3 * SumVolume(window)) * 15) \div 100
                   ELSE 0
        st_part == (CappedRatio(st_count, 3) * 10) \div 100
        spring_part == IF spring_idx # NoIdx THEN (StrengthOne * 5) \div 100 ELSE 0
    IN  sc_part + st_part + spring_part

StructureContribution(window, sc_idx, st_count, spring_idx) ==
    Min(StructureContributionUncapped(window, sc_idx, st_count, spring_idx),
        (StrengthOne * 30) \div 100)

CalculateZoneStrength(window, high_price, low_price, touches, sc_idx, st_count, spring_idx) ==
    Min(RangeContribution(window, high_price, low_price)
            + CandleContribution(window)
            + TouchContribution(touches)
            + ConcentrationContribution(window, high_price, low_price)
            + StructureContribution(window, sc_idx, st_count, spring_idx),
        StrengthOne)

\* the guard "if resistance <= support: return None" of _analyze_window
DegenerateRangeUnchecked(resistance, support) == FALSE

DegenerateRange(resistance, support) == resistance <= support

\* the guard "if avg_price == 0: return None" of _analyze_window
ZeroAveragePriceUnchecked(window) == FALSE

ZeroAveragePrice(window) == SumClose(window) = 0

\* _analyze_window: the AccumulationZone of candles[start_idx:end_idx], or None
AnalyzeWindow(cs, start_idx, end_idx) ==
    LET window == Slice(cs, start_idx, end_idx)
    IN  IF Len(window) < min_candles_in_zone THEN None
        ELSE IF ~HasPreviousDowntrend(cs, start_idx) THEN None
        ELSE LET sc_idx == FindSellingClimax(window)
             IN  IF sc_idx = NoIdx THEN None
        ELSE LET ps_idx == FindPreliminarySupport(window, sc_idx)
                 ar_idx == FindAutomaticRally(window, sc_idx)
             IN  IF ar_idx = NoIdx THEN None
        ELSE LET support == window[sc_idx].low
                 resistance == window[ar_idx].high
             IN  IF DegenerateRange(resistance, support) THEN None
                 ELSE IF ZeroAveragePrice(window) THEN None
                 \* range_percent > max_range_percent (a negative average price
                 \* makes range_percent negative, which passes)
                 ELSE IF SumClose(window) > 0
                         /\ (resistance - support) * Len(window) * 1000
                               > max_range_percent_x10 * SumClose(window)
                      THEN None
        ELSE LET st_indexes == SecondaryTests(window, ar_idx, support, window[sc_idx].volume)
                 secondary_tests == Cardinality(st_indexes)
             IN  IF secondary_tests < min_secondary_tests THEN None
        ELSE LET spring_idx == FindSpring(window, support, window[sc_idx].volume,
                                   IF st_indexes # {} THEN SetMin(st_indexes) ELSE ar_idx)
                 zone_low == support
                 touches == CountBoundaryTouches(window, resistance, zone_low)
             IN  IF touches < min_boundary_touches THEN None
        ELSE Some(
             [start_time |-> IF ps_idx # NoIdx THEN window[ps_idx].timestamp
                             ELSE window[sc_idx].timestamp,
              end_time |-> IF spring_idx # NoIdx THEN window[spring_idx].timestamp
                           ELSE window[Len(window)].timestamp,
              high_price |-> resistance,
              low_price |-> zone_low,
              candle_count |-> Len(window),
              strength |-> CalculateZoneStrength(window, resistance, zone_low, touches,
                                                 sc_idx, secondary_tests, spring_idx)])

\* _detect_accumulation_zones: the two nested range() loops
RECURSIVE StartLoop(_, _, _, _)
StartLoop(cs, window_size, start_idx, step) ==
    IF start_idx >= Len(cs) - window_size + 1 THEN <<>>
    ELSE AnalyzeWindow(cs, start_idx, start_idx + window_size)
             \o StartLoop(cs, window_size, start_idx + step, step)

RECURSIVE WindowLoop(_, _, _, _)
WindowLoop(cs, window_size, max_window, step) ==
    IF window_size >= max_window + 1 THEN <<>>
    ELSE StartLoop(cs, window_size, 0, step)
             \o WindowLoop(cs, window_size + 10, max_window, step)

DetectAccumulationZones(cs) ==
    LET min_window == min_candles_in_zone
        max_window == Max(min_window, Min(Len(cs), min_window * 4))
        step == Max(min_window \div 3, 8)
    IN  WindowLoop(cs, min_window, max_window, step)

\* sorted(zones, key=...) is stable: an insertion sort that goes past equal keys
RECURSIVE InsertByStart(_, _)
InsertByStart(sorted, z) ==
    IF sorted = <<>> THEN <<z>>
    ELSE IF z.start_time < Head(sorted).start_time THEN <<z>> \o sorted
    ELSE <<Head(sorted)>> \o InsertByStart(Tail(sorted), z)

RECURSIVE SortByStartTime(_)
SortByStartTime(zs) ==
    IF zs = <<>> THEN <<>>
    ELSE InsertByStart(SortByStartTime(SubSeq(zs, 1, Len(zs) - 1)), zs[Len(zs)])

RECURSIVE InsertByStrengthDesc(_, _)
InsertByStrengthDesc(sorted, z) ==
    IF sorted = <<>> THEN <<z>>
    ELSE IF z.strength > Head(sorted).strength THEN <<z>> \o sorted
    ELSE <<Head(sorted)>> \o InsertByStrengthDesc(Tail(sorted), z)

RECURSIVE SortByStrengthDesc(_)
SortByStrengthDesc(zs) ==
    IF zs = <<>> THEN <<>>
    ELSE InsertByStrengthDesc(SortByStrengthDesc(SubSeq(zs, 1, Len(zs) - 1)), zs[Len(zs)])

\* the body of the for loop of _merge_overlapping_zones; timestamps are minutes
RECURSIVE MergeLoop(_, _)
MergeLoop(sorted_zones, merged) ==
    IF sorted_zones = <<>> THEN merged
    ELSE LET zone == Head(sorted_zones)
             rest == Tail(sorted_zones)
         IN  IF merged = <<>> THEN MergeLoop(rest, <<zone>>)
             ELSE LET last == merged[Len(merged)]
                      overlap_start == Max(last.start_time, zone.start_time)
                      overlap_end == Min(last.end_time, zone.end_time)
                      zone_duration == zone.end_time - zone.start_time
                      overlap_duration == overlap_end - overlap_start
                      significant == /\ overlap_start < overlap_end
                                     /\ zone_duration > 0
                                     /\ overlap_duration * 2 > zone_duration
                      price_overlap == /\ zone.low_price <= last.high_price
                                       /\ zone.high_price >= last.low_price
                      gap == zone.start_time - last.end_time
                  IN  IF significant /\ price_overlap
                      THEN IF zone.strength > last.strength
                           THEN MergeLoop(rest, [merged EXCEPT ![Len(merged)] = zone])
                           ELSE MergeLoop(rest, merged)
                      ELSE IF gap >= min_gap_between_zones
                              \/ zone.strength * 10 > last.strength * 12
                           THEN MergeLoop(rest, Append(merged, zone))
                           ELSE MergeLoop(rest, merged)

MergeOverlappingZones(zones) ==
    IF zones = <<>> THEN <<>> ELSE MergeLoop(SortByStartTime(zones), <<>>)

\* the first max_zones merged zones in time order, whatever their strength
FirstZonesInTime(raw_zones) ==
    LET merged_zones == MergeOverlappingZones(raw_zones)
        strong(z) == z.strength * 100 >= min_strength_x100 * StrengthOne
        filtered == SortByStartTime(SelectSeq(merged_zones, strong))
    IN  SubSeq(filtered, 1, Min(Len(filtered), max_zones))

\* analyze, lines 120-137: merge, filter, keep the strongest, order by time
FilteredZones(raw_zones) ==
    LET merged_zones == MergeOverlappingZones(raw_zones)
        strong(z) == z.strength * 100 >= min_strength_x100 * StrengthOne
        filtered == SortByStrengthDesc(SelectSeq(merged_zones, strong))
    IN  SortByStartTime(SubSeq(filtered, 1, Min(Len(filtered), max_zones)))

\* analysis_period_start / analysis_period_end of the short-input signal
PeriodStart(cs) == IF cs # <<>> THEN Some(cs[1].timestamp) ELSE None

PeriodEndOfFirst(cs) == IF cs # <<>> THEN Some(cs[1].timestamp) ELSE None

PeriodEnd(cs) == IF cs # <<>> THEN Some(cs[Len(cs)].timestamp) ELSE None

IsShortInput(cs) == Len(cs) < min_candles_in_zone

\* LiquidityIndicator.analyze: the LiquiditySignal it returns
LiquidityAnalyze(cs) ==
    IF IsShortInput(cs)
    THEN [accumulation_zones |-> <<>>,
          total_zones |-> 0,
          analysis_period_start |-> PeriodStart(cs),
          analysis_period_end |-> PeriodEnd(cs)]
    ELSE LET filtered_zones == FilteredZones(DetectAccumulationZones(cs))
         IN  [accumulation_zones |-> filtered_zones,
              total_zones |-> Len(filtered_zones),
              analysis_period_start |-> Some(cs[1].timestamp),
              analysis_period_end |-> Some(cs[Len(cs)].timestamp)]

\* --------------------------------------------- the liquidity engine at work

Bar(o, h, l, c, v) == [open |-> o, high |-> h, low |-> l, close |-> c, volume |-> v]

\* The candle shapes fed to the liquidity engine (prices in tenths): a
\* selling climax, two rallies (one topping below the climax low), a
\* secondary test, and the flat range of tests/test_liquidity_breaks.py with
\* its sweep and breaking candles.
LiqPalette ==
    { Bar(1010, 1030, 960, 980, 8),
      Bar(960, 980, 940, 970, 4),
      Bar(925, 955, 915, 950, 4),
      Bar(900, 920, 900, 920, 1),
      Bar(1000, 1010, 990, 1000, 1),
      Bar(1000, 1010, 987, 1000, 1),
      Bar(985, 1015, 980, 985, 1) }

Stamp(bar, t) ==
    [open |-> bar.open, high |-> bar.high, low |-> bar.low, close |-> bar.close,
     volume |-> bar.volume, timestamp |-> t]

\* the caller appends the next candle, one minute after the previous one
LiqFeed ==
    /\ fed < MaxCandles
    /\ \E bar \in LiqPalette : candles' = Append(candles, Stamp(bar, Len(candles)))
    /\ fed' = fed + 1
    /\ UNCHANGED <<liqZones, liqSignal, liqInput, liqHeld>>
    /\ UNCHANGED notLiqVars

\* the caller starts a new candle sequence; the engine keeps its state
LiqNewInput ==
    /\ candles # <<>>
    /\ liqInput = candles
    /\ liqSignal # None
    /\ candles' = <<>>
    /\ UNCHANGED <<liqZones, liqSignal, liqInput, liqHeld, fed>>
    /\ UNCHANGED notLiqVars

\* LiquidityIndicator.analyze(candles)
LiqAnalyze ==
    /\ liqSignal' = Some(LiquidityAnalyze(candles))
    /\ liqInput' = candles
    /\ liqZones' = IF IsShortInput(candles) THEN liqZones
                   ELSE LiquidityAnalyze(candles).accumulation_zones
    \* line 139 binds _zones to the list the returned signal carries
    /\ liqHeld' = IF IsShortInput(candles) THEN liqHeld
                  ELSE Some([returned |-> LiquidityAnalyze(candles),
                             zones_now |-> LiquidityAnalyze(candles).accumulation_zones])
    /\ UNCHANGED <<candles, fed>>
    /\ UNCHANGED notLiqVars

\* LiquidityIndicator.reset(): _zones.clear() empties the list in place
LiqReset ==
    /\ liqZones' = <<>>
    /\ liqHeld' = IF liqHeld = None THEN None
                  ELSE Some([liqHeld[1] EXCEPT !.zones_now = <<>>])
    /\ UNCHANGED <<candles, liqSignal, liqInput, fed>>
    /\ UNCHANGED notLiqVars

LiqNext == LiqFeed \/ LiqNewInput \/ LiqAnalyze \/ LiqReset

\* ------------------------------------------------ claims on the liquidity engine

ReturnedZones == IF liqSignal = None THEN <<>> ELSE liqSignal[1].accumulation_zones

\* C1: every AccumulationZone of a signal returned by analyze has
\* high_price > low_price, candle_count >= min_candles_in_zone and a strength
\* within [0, 1].
C1_ZoneConstructionInvariant ==
    \A i \in 1..Len(ReturnedZones) :
        /\ ReturnedZones[i].high_price > ReturnedZones[i].low_price
        /\ ReturnedZones[i].candle_count >= min_candles_in_zone
        /\ ReturnedZones[i].strength >= 0
        /\ ReturnedZones[i].strength <= StrengthOne

\* a call on at least min_candles_in_zone candles has returned a zone
C1_Witness ==
    /\ Len(liqInput) >= min_candles_in_zone
    /\ Len(ReturnedZones) >= 1

\* C2: analyze on fewer than min_candles_in_zone candles returns a signal with
\* no zones, total_zones = 0 and the first and last candle timestamps as the
\* analysis period, both absent when there is no candle.
C2_ShortInputEmptySignal ==
    (liqSignal # None /\ Len(liqInput) < min_candles_in_zone) =>
        /\ liqSignal[1].accumulation_zones = <<>>
        /\ liqSignal[1].total_zones = 0
        /\ liqSignal[1].analysis_period_start
             = (IF liqInput = <<>> THEN None ELSE Some(liqInput[1].timestamp))
        /\ liqSignal[1].analysis_period_end
             = (IF liqInput = <<>> THEN None ELSE Some(liqInput[Len(liqInput)].timestamp))

\* a two-candle call answered by an engine that still holds a zone of an
\* earlier call
C2_Witness ==
    /\ liqSignal # None
    /\ Len(liqInput) = min_candles_in_zone - 1
    /\ liqInput # <<>>
    /\ liqZones # <<>>
    /\ liqSignal[1].accumulation_zones = <<>>

\* The range a zone has grown to over the first k candles of cs
RangeLow(cs, k) == SeqMin(Lows(SubSeq(cs, 1, k)))
RangeHigh(cs, k) == SeqMax(Highs(SubSeq(cs, 1, k)))
RangeHeight(cs, k) == RangeHigh(cs, k) - RangeLow(cs, k)

\* how far candle j reaches outside the range of the candles before it
Penetration(cs, j) ==
    Max(0, Max(RangeLow(cs, j - 1) - cs[j].low, cs[j].high - RangeHigh(cs, j - 1)))

\* the first min_candles_in_zone candles form a flat seed: one common low and
\* high, a positive height within max_range_percent of the average close
FlatSeed(cs) ==
    LET n == min_candles_in_zone
    IN  /\ Len(cs) >= n
        /\ \A i \in 1..n : cs[i].low = cs[1].low /\ cs[i].high = cs[1].high
                           /\ cs[i].close = cs[1].close
        /\ cs[1].high > cs[1].low
        /\ cs[1].low <= cs[1].close /\ cs[1].close <= cs[1].high
        /\ (cs[1].high - cs[1].low) * 1000 <= max_range_percent_x10 * cs[1].close

ClosesInsideSeed(cs, j) == cs[1].low <= cs[j].close /\ cs[j].close <= cs[1].high

\* candle j stays in the range, or sweeps it: it penetrates by less than
\* break_invalid_pct of the zone height and closes back inside
Absorbed(cs, j) ==
    /\ Penetration(cs, j) * 100 < break_invalid_pct_x100 * RangeHeight(cs, j - 1)
    /\ ClosesInsideSeed(cs, j)

\* candle j breaks the range: it penetrates by at least break_invalid_pct of
\* the zone height, or it is the break_confirm_candles-th candle in a row to
\* close outside
Breaking(cs, j) ==
    \/ Penetration(cs, j) * 100 >= break_invalid_pct_x100 * RangeHeight(cs, j - 1)
    \/ /\ j - break_confirm_candles >= min_candles_in_zone
       /\ \A k \in (j - break_confirm_candles + 1)..j : ~ClosesInsideSeed(cs, k)

\* C6: sweep absorption.  After a flat seed, candles that penetrate the range
\* by less than break_invalid_pct of its height and close back inside do not
\* end the zone: analyze returns exactly one zone, which counts every candle
\* and whose bounds have grown to include the sweeps.
C6_SweepAbsorbed ==
    ( /\ liqSignal # None
      /\ FlatSeed(liqInput)
      /\ Len(liqInput) > min_candles_in_zone
      /\ \A j \in (min_candles_in_zone + 1)..Len(liqInput) : Absorbed(liqInput, j)
      /\ \E j \in (min_candles_in_zone + 1)..Len(liqInput) : Penetration(liqInput, j) > 0 )
    => /\ liqSignal[1].total_zones = 1
       /\ Len(ReturnedZones) = 1
       /\ ReturnedZones[1].candle_count = Len(liqInput)
       /\ ReturnedZones[1].low_price = RangeLow(liqInput, Len(liqInput))
       /\ ReturnedZones[1].high_price = RangeHigh(liqInput, Len(liqInput))

\* C7: break confirmation.  After a flat seed and absorbed candles, the first
\* breaking candle ends the zone at the candle before it: analyze returns a
\* zone whose candle_count, end_time and bounds leave the breaking candle out.
C7_BreakEndsZone ==
    \A j \in (min_candles_in_zone + 1)..Len(liqInput) :
        ( /\ liqSignal # None
          /\ FlatSeed(liqInput)
          /\ \A k \in (min_candles_in_zone + 1)..(j - 1) : Absorbed(liqInput, k)
          /\ Breaking(liqInput, j) )
        => /\ Len(ReturnedZones) >= 1
           /\ ReturnedZones[1].candle_count = j - 1
           /\ ReturnedZones[1].end_time = liqInput[j - 1].timestamp
           /\ ReturnedZones[1].low_price = RangeLow(liqInput, j - 1)
           /\ ReturnedZones[1].high_price = RangeHigh(liqInput, j - 1)

\* the closes fall by at least min_downtrend_drop_percent over the segment and
\* most of its candles print a lower high and a lower low
IsDowntrend(segment) ==
    /\ (segment[1].close - segment[Len(segment)].close) * 1000
           >= min_downtrend_drop_percent_x10 * segment[1].close
    /\ Cardinality({i \in 2..Len(segment) : segment[i].high < segment[i - 1].high}) * 10
           >= Len(segment) * 6
    /\ Cardinality({i \in 2..Len(segment) : segment[i].low < segment[i - 1].low}) * 10
           >= Len(segment) * 6

\* the downtrend_lookback candles right before candle start_idx are a downtrend
PrecededByDowntrend(cs, start_idx) ==
    /\ start_idx >= downtrend_lookback
    /\ IsDowntrend(Slice(cs, start_idx - downtrend_lookback, start_idx))

\* C16: every zone analyze returns comes from a window of the input that a
\* downtrend precedes, over the downtrend_lookback candles right before the
\* window's first candle; an input none of whose runs of downtrend_lookback
\* candles is a downtrend yields no zone.
C16_ZoneOnlyAfterDowntrend ==
    liqSignal # None =>
        /\ \A k \in 1..Len(ReturnedZones) :
              \E start_idx \in 0..(Len(liqInput) - ReturnedZones[k].candle_count) :
                  PrecededByDowntrend(liqInput, start_idx)
        /\ (\A start_idx \in downtrend_lookback..Len(liqInput) :
                ~PrecededByDowntrend(liqInput, start_idx)) => ReturnedZones = <<>>

\* C15: a LiquiditySignal analyze returned is the caller's: no later reset()
\* or analyze() on the engine changes the contents of its accumulation_zones
\* list.
C15_ReturnedSignalUnchanged ==
    liqHeld # None => liqHeld[1].zones_now = liqHeld[1].returned.accumulation_zones

\* ------------------------------------------------ the merge pass on its own
\* _merge_overlapping_zones takes any list of zones; the lists analyze hands it
\* on short candle sequences hold at most one zone, so the pass is also driven
\* directly with small zone lists.

MaxMergeZones == 3

Zone(s, e, lo, hi, st) ==
    [start_time |-> s, end_time |-> e, high_price |-> hi, low_price |-> lo,
     candle_count |-> e - s + 1, strength |-> st]

\* start/end minutes of a zone: equal, overlapping by half, two minutes apart
ZoneTimes == { <<0, 2>>, <<1, 3>>, <<5, 7>> }

\* low, high (in tenths) and strength of a zone: bands that touch or lie
\* apart, strengths below and above min_strength
ZoneKinds ==
    { <<960, 980, 2000>>, <<960, 980, 7000>>, <<1000, 1020, 7000>>,
      <<980, 1000, 9000>>, <<1000, 1020, 9000>> }

ZoneSpace == { Zone(t[1], t[2], k[1], k[2], k[3]) : t \in ZoneTimes, k \in ZoneKinds }

\* the caller appends a zone to the list it will merge
MergeAddZone ==
    /\ mergeOnce = None
    /\ mergeSignal = None
    /\ Len(mergeIn) < MaxMergeZones
    /\ \E z \in ZoneSpace : mergeIn' = Append(mergeIn, z)
    /\ UNCHANGED <<mergeOnce, mergeTwice, mergeSignal>>
    /\ UNCHANGED notMergeVars

\* _merge_overlapping_zones(mergeIn)
MergeFirstPass ==
    /\ mergeOnce = None
    /\ mergeOnce' = Some(MergeOverlappingZones(mergeIn))
    /\ UNCHANGED <<mergeIn, mergeTwice, mergeSignal>>
    /\ UNCHANGED notMergeVars

\* _merge_overlapping_zones applied to the list the first pass returned
MergeSecondPass ==
    /\ mergeOnce # None
    /\ mergeTwice = None
    /\ mergeTwice' = Some(MergeOverlappingZones(mergeOnce[1]))
    /\ UNCHANGED <<mergeIn, mergeOnce, mergeSignal>>
    /\ UNCHANGED notMergeVars

\* analyze from line 119 on, with mergeIn as the zones detection returned
MergeAnalyzeZones ==
    /\ mergeSignal = None
    /\ mergeSignal' = Some([accumulation_zones |-> FilteredZones(mergeIn),
                            total_zones |-> Len(FilteredZones(mergeIn))])
    /\ UNCHANGED <<mergeIn, mergeOnce, mergeTwice>>
    /\ UNCHANGED notMergeVars

MergeNext == MergeAddZone \/ MergeFirstPass \/ MergeSecondPass \/ MergeAnalyzeZones

\* C5: the merge pass is idempotent: merging an already merged list returns
\* that list unchanged.
C5_MergeIdempotent == mergeTwice # None => mergeTwice[1] = mergeOnce[1]

\* the earlier-starting and the later-starting zone of a two-zone input
FirstZone == SortByStartTime(mergeIn)[1]
SecondZone == SortByStartTime(mergeIn)[2]

\* two zones adjacent or overlapping in time, and overlapping in price
Mergeable(a, b) ==
    /\ b.start_time - a.end_time <= min_gap_between_zones
    /\ b.low_price <= a.high_price
    /\ b.high_price >= a.low_price

\* C11: two candidate zones that are adjacent or overlapping in time and
\* overlap in price come out of the merge pass as one zone: it starts at the
\* earlier start, its high is the larger high, its low the smaller low, its
\* candle count the sum of the counts and its strength the larger strength.
C11_MergedZoneIsUnion ==
    (mergeOnce # None /\ Len(mergeIn) = 2 /\ Mergeable(FirstZone, SecondZone)) =>
        /\ Len(mergeOnce[1]) = 1
        /\ mergeOnce[1][1].start_time = FirstZone.start_time
        /\ mergeOnce[1][1].high_price = Max(FirstZone.high_price, SecondZone.high_price)
        /\ mergeOnce[1][1].low_price = Min(FirstZone.low_price, SecondZone.low_price)
        /\ mergeOnce[1][1].candle_count = FirstZone.candle_count + SecondZone.candle_count
        /\ mergeOnce[1][1].strength = Max(FirstZone.strength, SecondZone.strength)

IsStrong(z) == z.strength * 100 >= min_strength_x100 * StrengthOne

\* the zones of the merged list, as a set
MergedSet == { MergeOverlappingZones(mergeIn)[k] : k \in 1..Len(MergeOverlappingZones(mergeIn)) }

SignalZones == mergeSignal[1].accumulation_zones

\* C12: the zones analyze returns all have strength >= min_strength, are at
\* most max_zones, are merged zones none of which is weaker than an omitted
\* merged zone of strength >= min_strength, come ordered by start_time
\* ascending, and total_zones is their number.
C12_ReturnedZonesStrongestInTimeOrder ==
    mergeSignal # None =>
        /\ \A k \in 1..Len(SignalZones) : IsStrong(SignalZones[k]) /\ SignalZones[k] \in MergedSet
        /\ Len(SignalZones) <= max_zones
        /\ Len(SignalZones) = Min(max_zones,
                                  Len(SelectSeq(MergeOverlappingZones(mergeIn), IsStrong)))
        /\ \A z \in MergedSet :
              (IsStrong(z) /\ \A k \in 1..Len(SignalZones) : SignalZones[k] # z) =>
                  \A k \in 1..Len(SignalZones) : z.strength <= SignalZones[k].strength
        /\ \A k \in 1..(Len(SignalZones) - 1) :
              SignalZones[k].start_time <= SignalZones[k + 1].start_time
        /\ mergeSignal[1].total_zones = Len(SignalZones)

\* three merged zones of sufficient strength, the weakest of them first in
\* time, of which analyze returned the two strongest
C12_Witness ==
    /\ mergeSignal # None
    /\ Len(SelectSeq(MergeOverlappingZones(mergeIn), IsStrong)) = 3
    /\ MergeOverlappingZones(mergeIn)[1].strength = 7000
    /\ Len(SignalZones) = 2
    /\ SignalZones[1].strength = 9000
    /\ SignalZones[2].strength = 9000

\* ------------------------------------------------------------- TrendDetector
\* domain/services/trend_detector.py, the zigzag variant.  Swing indexes are
\* the 0-based positions of the source; confidences are in 1/10000.

td_max_swings == 12
td_min_percent_move_x1000 == 5

ConfidenceOne == StrengthOne

\* SwingSettings.is_significant; last_price is None or Some(price), and
\* min_price_move keeps its default None
IsSignificant(last_price, candidate_price) ==
    IF last_price = None THEN TRUE
    ELSE IF last_price[1] = 0 THEN TRUE
    ELSE Abs(candidate_price - last_price[1]) * 1000
             >= td_min_percent_move_x1000 * last_price[1]

Swing(i, p, ts, t) == [index |-> i, price |-> p, timestamp |-> ts, type |-> t]

\* the for loop of _detect_swings and the closing swing after it; idx and
\* extreme_idx are positions in cs
RECURSIVE DetectLoop(_, _, _, _, _, _)
DetectLoop(cs, idx, direction, extreme_price, extreme_idx, swings) ==
    IF idx > Len(cs)
    THEN IF direction # "NONE"
         THEN Append(swings, Swing(extreme_idx - 1, extreme_price,
                                   cs[extreme_idx].timestamp, direction))
         ELSE swings
    ELSE LET candle == cs[idx]
             anchor == cs[1]
             pivot == Swing(extreme_idx - 1, extreme_price, cs[extreme_idx].timestamp, direction)
         IN  IF direction = "NONE"
             THEN IF IsSignificant(Some(extreme_price), candle.close)
                     /\ candle.close > extreme_price
                  THEN DetectLoop(cs, idx + 1, "HIGH", candle.high, idx,
                           Append(swings, Swing(extreme_idx - 1, anchor.low,
                                                anchor.timestamp, "LOW")))
                  ELSE IF IsSignificant(Some(extreme_price), candle.close)
                          /\ candle.close < extreme_price
                  THEN DetectLoop(cs, idx + 1, "LOW", candle.low, idx,
                           Append(swings, Swing(extreme_idx - 1, anchor.high,
                                                anchor.timestamp, "HIGH")))
                  ELSE DetectLoop(cs, idx + 1, direction, extreme_price, extreme_idx, swings)
             ELSE IF direction = "HIGH"
             THEN IF candle.high >= extreme_price
                  THEN DetectLoop(cs, idx + 1, "HIGH", candle.high, idx, swings)
                  ELSE IF IsSignificant(Some(extreme_price), candle.low)
                  THEN DetectLoop(cs, idx + 1, "LOW", candle.low, idx, Append(swings, pivot))
                  ELSE DetectLoop(cs, idx + 1, direction, extreme_price, extreme_idx, swings)
             ELSE IF candle.low <= extreme_price
                  THEN DetectLoop(cs, idx + 1, "LOW", candle.low, idx, swings)
                  ELSE IF IsSignificant(Some(extreme_price), candle.high)
                  THEN DetectLoop(cs, idx + 1, "HIGH", candle.high, idx, Append(swings, pivot))
                  ELSE DetectLoop(cs, idx + 1, direction, extreme_price, extreme_idx, swings)

DetectSwings(cs) ==
    IF Len(cs) < 2 THEN <<>> ELSE DetectLoop(cs, 2, "NONE", cs[1].close, 1, <<>>)

\* an append to a deque that, when full, keeps its oldest entry and drops the
\* one after it
DequeAppendKeepsOldest(mem, x, max_len) ==
    LET grown == Append(mem, x)
    IN  IF Len(grown) > max_len THEN <<Head(grown)>> \o Tail(Tail(grown)) ELSE grown

\* deque(maxlen = max_len).append
DequeAppend(mem, x, max_len) ==
    LET grown == Append(mem, x)
    IN  IF Len(grown) > max_len THEN Tail(grown) ELSE grown

\* a registration that appends every significant swing, whatever the type of
\* the last one in memory
RegisterSwingAppendAll(mem, swing, anchor_price) ==
    LET last_swing == IF mem # <<>> THEN Some(mem[Len(mem)]) ELSE None
        baseline_price == IF last_swing # None THEN Some(last_swing[1].price)
                          ELSE anchor_price
    IN  IF ~IsSignificant(baseline_price, swing.price) THEN mem
        ELSE DequeAppend(mem, swing, td_max_swings)

\* TrendDetector._register_swing: the swing memory after the call
RegisterSwing(mem, swing, anchor_price) ==
    LET last_swing == IF mem # <<>> THEN Some(mem[Len(mem)]) ELSE None
        baseline_price == IF last_swing # None THEN Some(last_swing[1].price)
                          ELSE anchor_price
    IN  IF ~IsSignificant(baseline_price, swing.price) THEN mem
        ELSE IF last_swing # None /\ last_swing[1].type = swing.type
        THEN IF \/ swing.type = "HIGH" /\ swing.price >= last_swing[1].price
                \/ swing.type = "LOW" /\ swing.price <= last_swing[1].price
             THEN Append(SubSeq(mem, 1, Len(mem) - 1), swing)
             ELSE mem
        ELSE DequeAppend(mem, swing, td_max_swings)

RECURSIVE RegisterSwings(_, _, _)
RegisterSwings(mem, swings, anchor_price) ==
    IF swings = <<>> THEN mem
    ELSE RegisterSwings(RegisterSwing(mem, Head(swings), anchor_price),
                        Tail(swings), anchor_price)

\* TrendDetector._classify_trend
ClassifyTrend(mem) ==
    LET IsHighSwing(s) == s.type = "HIGH"
        IsLowSwing(s) == s.type = "LOW"
        highs == SelectSeq(mem, IsHighSwing)
        lows == SelectSeq(mem, IsLowSwing)
        nh == Len(highs)
        nl == Len(lows)
    IN  IF /\ nh >= 2 /\ nl >= 2
           /\ highs[nh].price > highs[nh - 1].price
           /\ lows[nl].price > lows[nl - 1].price
        THEN "UP"
        ELSE IF /\ nh >= 2 /\ nl >= 2
                /\ highs[nh].price < highs[nh - 1].price
                /\ lows[nl].price < lows[nl - 1].price
        THEN "DOWN"
        ELSE IF nh >= 1 /\ nl >= 1
        THEN IF mem[Len(mem)].type = "LOW"
             THEN IF nl >= 2 /\ lows[nl].price < lows[nl - 1].price THEN "DOWN"
                  ELSE IF /\ IsSignificant(Some(highs[nh].price), lows[nl].price)
                          /\ lows[nl].price < highs[nh].price
                  THEN "DOWN"
                  ELSE "UNDEFINED"
             ELSE IF nh >= 2 /\ highs[nh].price > highs[nh - 1].price THEN "UP"
                  ELSE IF /\ IsSignificant(Some(lows[nl].price), highs[nh].price)
                          /\ highs[nh].price > lows[nl].price
                  THEN "UP"
                  ELSE "UNDEFINED"
        ELSE "UNDEFINED"

\* the confidence of a directional trend without its depth term
FlatConfidence(mem) == 4500

\* 0.45 + 0.45 * min(len(swings) / max(max_swings, 1), 1), capped at 1
DepthConfidence(mem) ==
    LET cap == Max(td_max_swings, 1)
    IN  Min(ConfidenceOne, 4500 + (4500 * Min(Len(mem), cap)) \div cap)

\* _compute_confidence without the floor of an UNDEFINED trend
ComputeConfidenceNoFloor(mem, trend) ==
    IF trend = "UNDEFINED" THEN 0
    ELSE DepthConfidence(mem)

\* TrendDetector._compute_confidence
ComputeConfidence(mem, trend) ==
    IF trend = "UNDEFINED" THEN (IF mem # <<>> THEN 2500 ELSE 0)
    ELSE DepthConfidence(mem)

\* the swing memory TrendDetector.analyze leaves, lines 61-64
DetectorMemory(mem, cs) ==
    RegisterSwings(mem, DetectSwings(cs),
                   IF cs # <<>> THEN Some(cs[1].close) ELSE None)

\* the TrendResult TrendDetector.analyze returns, lines 66-75
DetectorResult(mem) ==
    [trend |-> ClassifyTrend(mem),
     confidence |-> ComputeConfidence(mem, ClassifyTrend(mem)),
     last_swings |-> mem]

\* ------------------------------------------------------------ TrendIndicator
\* domain/indicators/trend/trend_indicator.py, the lookback-confirmation
\* variant.  lookback_bars is the value the modelled engine is configured
\* with; the other settings are the defaults.

ti_max_swings == 20
ti_min_percent_move_x1000 == 3
lookback_bars == 1

\* TrendIndicatorSettings.is_significant_move
IsSignificantMove(from_price, to_price) ==
    IF from_price = 0 THEN TRUE
    ELSE Abs(to_price - from_price) * 1000 >= ti_min_percent_move_x1000 * from_price

SwingPoint(p, ts, i, c) == [price |-> p, timestamp |-> ts, index |-> i, classification |-> c]

IsHigh(s) == s.classification \in {"HH", "LH", "SH"}
IsLow(s) == s.classification \in {"HL", "LL", "SL"}

\* _detect_swing_points: the raw swings of the candle at position i
RawSwingsAt(cs, i) ==
    LET candle == cs[i]
        is_swing_high == \A j \in 1..lookback_bars :
                             /\ candle.high >= cs[i - j].high
                             /\ candle.high >= cs[i + j].high
        is_swing_low == \A j \in 1..lookback_bars :
                             /\ candle.low <= cs[i - j].low
                             /\ candle.low <= cs[i + j].low
    IN  (IF is_swing_high THEN <<[idx |-> i - 1, price |-> candle.high, is_high |-> TRUE]>>
         ELSE <<>>)
        \o (IF is_swing_low THEN <<[idx |-> i - 1, price |-> candle.low, is_high |-> FALSE]>>
            ELSE <<>>)

RECURSIVE RawSwingsFrom(_, _)
RawSwingsFrom(cs, i) ==
    IF i > Len(cs) - lookback_bars THEN <<>>
    ELSE RawSwingsAt(cs, i) \o RawSwingsFrom(cs, i + 1)

\* TrendIndicator._detect_swing_points
DetectSwingPoints(cs) == RawSwingsFrom(cs, lookback_bars + 1)

\* the last swing high and the last swing low of the memory, if any
LastSwingHigh(mem) ==
    LET kept == SelectSeq(mem, IsHigh)
    IN  IF kept = <<>> THEN None ELSE Some(kept[Len(kept)])

LastSwingLow(mem) ==
    LET kept == SelectSeq(mem, IsLow)
    IN  IF kept = <<>> THEN None ELSE Some(kept[Len(kept)])

PriceOf(swing) == IF swing = None THEN None ELSE Some(swing[1].price)

\* the second loop of _classify_swings
RECURSIVE ClassifyLoop(_, _, _, _)
ClassifyLoop(raw_swings, cs, last_high, last_low) ==
    IF raw_swings = <<>> THEN <<>>
    ELSE LET r == Head(raw_swings)
             timestamp == cs[r.idx + 1].timestamp
             classification ==
                 IF r.is_high
                 THEN IF last_high = None THEN "SH"
                      ELSE IF r.price > last_high[1] THEN "HH" ELSE "LH"
                 ELSE IF last_low = None THEN "SL"
                      ELSE IF r.price > last_low[1] THEN "HL" ELSE "LL"
         IN  <<SwingPoint(r.price, timestamp, r.idx, classification)>>
             \o ClassifyLoop(Tail(raw_swings), cs,
                             IF r.is_high THEN Some(r.price) ELSE last_high,
                             IF r.is_high THEN last_low ELSE Some(r.price))

\* TrendIndicator._classify_swings
ClassifySwings(mem, raw_swings, cs) ==
    ClassifyLoop(raw_swings, cs, PriceOf(LastSwingHigh(mem)), PriceOf(LastSwingLow(mem)))

\* a registration that appends every swing
RegisterSwingPointAlways(mem, swing) ==
    DequeAppend(mem, swing, ti_max_swings)

\* TrendIndicator._register_swing
RegisterSwingPoint(mem, swing) ==
    IF /\ mem # <<>>
       /\ mem[Len(mem)].index = swing.index
       /\ IsHigh(mem[Len(mem)]) = IsHigh(swing)
    THEN IF \/ IsHigh(swing) /\ swing.price >= mem[Len(mem)].price
            \/ IsLow(swing) /\ swing.price <= mem[Len(mem)].price
         THEN Append(SubSeq(mem, 1, Len(mem) - 1), swing)
         ELSE mem
    ELSE DequeAppend(mem, swing, ti_max_swings)

RECURSIVE RegisterSwingPoints(_, _)
RegisterSwingPoints(mem, swings) ==
    IF swings = <<>> THEN mem
    ELSE RegisterSwingPoints(RegisterSwingPoint(mem, Head(swings)), Tail(swings))

BreakOfStructure(t, swing, cs) ==
    [type |-> t, broken_swing |-> swing, break_price |-> cs[Len(cs)].close,
     break_timestamp |-> cs[Len(cs)].timestamp, break_index |-> Len(cs) - 1]

\* TrendIndicator._detect_bos: _last_bos and _current_trend after the call
DetectBos(mem, last_bos, current_trend, cs) ==
    LET unchanged == [last_bos |-> last_bos, current_trend |-> current_trend]
        last_swing_high == LastSwingHigh(mem)
        last_swing_low == LastSwingLow(mem)
    IN  IF Len(mem) < 2 \/ cs = <<>> THEN unchanged
        ELSE LET close == cs[Len(cs)].close
             IN  IF last_swing_high # None /\ close > last_swing_high[1].price
                 THEN IF IsSignificantMove(last_swing_high[1].price, close)
                      THEN [last_bos |-> Some(BreakOfStructure("BULLISH", last_swing_high[1], cs)),
                            current_trend |-> "UP"]
                      ELSE unchanged
                 ELSE IF last_swing_low # None /\ close < last_swing_low[1].price
                 THEN IF IsSignificantMove(last_swing_low[1].price, close)
                      THEN [last_bos |-> Some(BreakOfStructure("BEARISH", last_swing_low[1], cs)),
                            current_trend |-> "DOWN"]
                      ELSE unchanged
                 ELSE unchanged

\* a trend decision that asks the last BOS before the swing structure
DetermineTrendBosFirst(mem, last_bos, current_trend) ==
    IF Len(mem) < 4 THEN current_trend
    ELSE LET recent_swings == SubSeq(mem, Max(1, Len(mem) - 5), Len(mem))
             highs == SelectSeq(recent_swings, IsHigh)
             lows == SelectSeq(recent_swings, IsLow)
             structured == Len(highs) >= 2 /\ Len(lows) >= 2
         IN  IF last_bos # None
             THEN (IF last_bos[1].type = "BULLISH" THEN "UP" ELSE "DOWN")
             ELSE IF /\ structured
                     /\ highs[Len(highs)].classification = "HH"
                     /\ lows[Len(lows)].classification = "HL"
             THEN "UP"
             ELSE IF /\ structured
                     /\ lows[Len(lows)].classification = "LL"
                     /\ highs[Len(highs)].classification = "LH"
             THEN "DOWN"
             ELSE current_trend

\* TrendIndicator._determine_trend
DetermineTrend(mem, last_bos, current_trend) ==
    IF Len(mem) < 4 THEN current_trend
    ELSE LET recent_swings == SubSeq(mem, Max(1, Len(mem) - 5), Len(mem))
             highs == SelectSeq(recent_swings, IsHigh)
             lows == SelectSeq(recent_swings, IsLow)
             structured == Len(highs) >= 2 /\ Len(lows) >= 2
         IN  IF /\ structured
                /\ highs[Len(highs)].classification = "HH"
                /\ lows[Len(lows)].classification = "HL"
             THEN "UP"
             ELSE IF /\ structured
                     /\ lows[Len(lows)].classification = "LL"
                     /\ highs[Len(highs)].classification = "LH"
             THEN "DOWN"
             ELSE IF last_bos # None
             THEN (IF last_bos[1].type = "BULLISH" THEN "UP" ELSE "DOWN")
             ELSE current_trend

\* TrendIndicator._calculate_confidence
CalculateConfidence(mem, last_bos) ==
    IF mem = <<>> THEN 0
    ELSE LET recent == SubSeq(mem, Max(1, Len(mem) - 3), Len(mem))
             IsBullish(sw) == sw.classification \in {"HH", "HL"}
             IsBearish(sw) == sw.classification \in {"LL", "LH"}
             swing_factor == (3000 * Min(Len(mem), ti_max_swings)) \div ti_max_swings
             bos_factor == IF last_bos # None THEN 2000 ELSE 0
             structure_factor ==
                 IF /\ Len(mem) >= 4
                    /\ \/ Len(SelectSeq(recent, IsBullish)) >= 3
                       \/ Len(SelectSeq(recent, IsBearish)) >= 3
                 THEN 2000 ELSE 0
         IN  Min(3000 + swing_factor + bos_factor + structure_factor, ConfidenceOne)

\* TrendIndicator.analyze, line 91: too few candles to confirm a swing
AnyLength(cs) == FALSE

IsShortTrendInput(cs) == Len(cs) < lookback_bars * 2 + 1

\* the engine state TrendIndicator.analyze leaves, lines 99-110
IndicatorState(mem, last_bos, current_trend, cs) ==
    IF IsShortTrendInput(cs)
    THEN [swings |-> mem, last_bos |-> last_bos, current_trend |-> current_trend]
    ELSE LET registered == RegisterSwingPoints(mem, ClassifySwings(mem, DetectSwingPoints(cs), cs))
             bos == DetectBos(registered, last_bos, current_trend, cs)
         IN  [swings |-> registered, last_bos |-> bos.last_bos,
              current_trend |-> bos.current_trend]

\* the TrendSignal TrendIndicator.analyze returns, given the state it leaves
IndicatorSignal(after, cs) ==
    IF IsShortTrendInput(cs)
    THEN [trend |-> "UNDEFINED", swings |-> <<>>, last_bos |-> None, confidence |-> 0]
    ELSE [trend |-> DetermineTrend(after.swings, after.last_bos, after.current_trend),
          swings |-> after.swings,
          last_bos |-> after.last_bos,
          confidence |-> CalculateConfidence(after.swings, after.last_bos)]

\* ------------------------------------------------ the trend engines at work

MaxTrendCandles == 5
MaxCalls == 2

BasePrice == 10 * 100

\* How the next candle is placed: <<move of its mid price from the previous
\* close, half of its range>>, in tenths.  Narrow and wide candles two per
\* cent up or down, and a narrow candle that barely moves.
TrendMoves == { <<20, 8>>, <<20, 30>>, <<-20, 8>>, <<-20, 30>>, <<2, 8>> }

MoveBar(base, mv) == Bar(base + mv[1], base + mv[1] + mv[2], base + mv[1] - mv[2], base + mv[1], 1)

\* the caller appends the next candle, one minute after the previous one
TrendFeed ==
    /\ fed < MaxTrendCandles
    /\ \E mv \in TrendMoves :
          LET base == IF candles = <<>> THEN BasePrice ELSE candles[Len(candles)].close
          IN  candles' = Append(candles, Stamp(MoveBar(base, mv), Len(candles)))
    /\ fed' = fed + 1
    /\ UNCHANGED <<trendVars, notTrendVars>>

\* the caller starts a new candle sequence; the engines keep their state
TrendNewInput ==
    /\ candles # <<>>
    /\ \/ tiSignal # None /\ tiInput = candles
       \/ tdResult # None /\ tdInput = candles
    /\ candles' = <<>>
    /\ UNCHANGED <<fed, trendVars, notTrendVars>>

\* TrendIndicator.analyze(candles)
IndicatorAnalyze ==
    /\ calls < MaxCalls
    /\ LET after == IndicatorState(tiSwings, tiLastBos, tiCurrentTrend, candles)
       IN  /\ tiSwings' = after.swings
           /\ tiLastBos' = after.last_bos
           /\ tiCurrentTrend' = after.current_trend
           /\ tiSignal' = Some(IndicatorSignal(after, candles))
    /\ tiInput' = candles
    /\ calls' = calls + 1
    /\ UNCHANGED <<candles, fed, tdVars, notTrendVars>>

\* a reset that clears the swings and the BOS but keeps the current trend
IndicatorResetKeepsTrend ==
    /\ tiSwings' = <<>>
    /\ tiLastBos' = None
    /\ UNCHANGED <<tiCurrentTrend, tiSignal, tiInput, calls, candles, fed, tdVars, notTrendVars>>

\* TrendIndicator.reset()
IndicatorReset ==
    /\ tiSwings' = <<>>
    /\ tiLastBos' = None
    /\ tiCurrentTrend' = "UNDEFINED"
    /\ UNCHANGED <<tiSignal, tiInput, calls, candles, fed, tdVars, notTrendVars>>

\* TrendDetector.analyze(candles)
DetectorAnalyze ==
    /\ calls < MaxCalls
    /\ tdSwings' = DetectorMemory(tdSwings, candles)
    /\ tdResult' = Some(DetectorResult(DetectorMemory(tdSwings, candles)))
    /\ tdInput' = candles
    /\ calls' = calls + 1
    /\ UNCHANGED <<candles, fed, tiVars, notTrendVars>>

TrendNext ==
    TrendFeed \/ TrendNewInput \/ IndicatorAnalyze \/ IndicatorReset \/ DetectorAnalyze

\* ------------------------------------------- the zigzag detector on long input
\* Sequences long enough to fill the detector's swing memory (max_swings = 12):
\* wide candles two per cent up or down, each of which turns the zigzag or
\* extends its current leg; at most MaxStraight candles of a sequence extend.

MaxZigCandles == 13

MaxStraight == 1

ZigMoves == { <<20, 30>>, <<-20, 30>> }

\* candle k closes above the close before it
Rising(cs, k) == cs[k].close > (IF k = 1 THEN BasePrice ELSE cs[k - 1].close)

\* the number of candles that go on in the direction of the one before
Straight(cs) == Cardinality({ k \in 2..Len(cs) : Rising(cs, k) = Rising(cs, k - 1) })

\* the caller appends the next candle, one minute after the previous one
ZigFeed ==
    /\ fed < MaxZigCandles
    /\ \E mv \in ZigMoves :
          LET base == IF candles = <<>> THEN BasePrice ELSE candles[Len(candles)].close
          IN  /\ Straight(Append(candles, Stamp(MoveBar(base, mv), Len(candles)))) <= MaxStraight
              /\ candles' = Append(candles, Stamp(MoveBar(base, mv), Len(candles)))
    /\ fed' = fed + 1
    /\ UNCHANGED <<trendVars, notTrendVars>>

ZigNext ==
    ZigFeed \/ TrendNewInput \/ DetectorAnalyze

\* ------------------------------------------- the indicator on a breaking close
\* A swing high at 100, a rise, a swing low at 106 and no swing high after
\* it, so that the last swing low in memory lies above the last swing high;
\* then a last candle that closes between the two, above both or below both.

MaxBosCandles == 7

BosScript ==
    << Bar(970, 990, 950, 970, 1), Bar(980, 1000, 960, 980, 1),
       Bar(980, 995, 970, 990, 1), Bar(1070, 1080, 1065, 1075, 1),
       Bar(1075, 1090, 1060, 1080, 1), Bar(1080, 1100, 1070, 1090, 1) >>

BosLast ==
    { Bar(1090, 1110, 1020, 1030, 1), Bar(1090, 1110, 1000, 1002, 1),
      Bar(1090, 1130, 1085, 1120, 1), Bar(1000, 1110, 940, 950, 1) }

\* the caller appends the next candle, one minute after the previous one
BosFeed ==
    /\ fed < MaxBosCandles
    /\ \E bar \in (IF Len(candles) < Len(BosScript)
                   THEN {BosScript[Len(candles) + 1]} ELSE BosLast) :
          candles' = Append(candles, Stamp(bar, Len(candles)))
    /\ fed' = fed + 1
    /\ UNCHANGED <<trendVars, notTrendVars>>

BosNext ==
    BosFeed \/ TrendNewInput \/ IndicatorAnalyze \/ IndicatorReset

\* ------------------------------------------ the indicator on a longer memory
\* Sequences of up to MaxStructCandles candles, analysed as they grow, so that
\* the memory holds more swings than _determine_trend looks at.

MaxStructCandles == 7

StructMoves == { <<20, 8>>, <<20, 30>>, <<-20, 30>> }

\* the caller appends the next candle, one minute after the previous one
StructFeed ==
    /\ fed < MaxStructCandles
    /\ \E mv \in StructMoves :
          LET base == IF candles = <<>> THEN BasePrice ELSE candles[Len(candles)].close
          IN  candles' = Append(candles, Stamp(MoveBar(base, mv), Len(candles)))
    /\ fed' = fed + 1
    /\ UNCHANGED <<trendVars, notTrendVars>>

StructNext ==
    StructFeed \/ TrendNewInput \/ IndicatorAnalyze \/ IndicatorReset

\* ---------------------------------------------------- GenerateTradingDecision
\* application/use_cases/generate_trading_decision.py on the TrendDetector
\* that create_app shares between requests.  A decision text is its wording
\* and the number printed in it, in hundredths; prices stay in tenths.

TradingDecision(time, type, price, text) ==
    [time |-> time, type |-> type, price |-> price, text |-> text]

\* f"{confidence:.2f}" for a confidence in 1/10000
TwoDecimals(confidence) == (confidence + 50) \div 100

\* (recent_avg / previous_avg - 1) * 100 in hundredths, from the two sums
PercentChange(recent_sum, previous_sum) ==
    LET magnitude == (2 * 10000 * Abs(recent_sum - previous_sum) + previous_sum)
                         \div (2 * previous_sum)
    IN  IF recent_sum >= previous_sum THEN magnitude ELSE 0 - magnitude

\* GenerateTradingDecision._analyze_momentum
AnalyzeMomentum(candles_list, timestamp, current_price) ==
    IF Len(candles_list) < 20 THEN <<>>
    ELSE LET recent_sum == SumClose(SubSeq(candles_list, Len(candles_list) - 9, Len(candles_list)))
             previous_sum == SumClose(SubSeq(candles_list, Len(candles_list) - 19, Len(candles_list) - 10))
         IN  IF recent_sum * 1000 > previous_sum * 1001
             THEN << TradingDecision(timestamp, "buy", current_price,
                         <<"Momentum positivo", PercentChange(recent_sum, previous_sum)>>) >>
             ELSE IF recent_sum * 1000 < previous_sum * 999
             THEN << TradingDecision(timestamp, "sell", current_price,
                         <<"Momentum negativo", PercentChange(recent_sum, previous_sum)>>) >>
             ELSE <<>>

\* the decisions execute returns for the candles fetched, given the
\* TrendResult of the shared detector (lines 65-98)
Decisions(candles_list, trend_result) ==
    LET last_candle == candles_list[Len(candles_list)]
    IN  IF trend_result.confidence * 10 > 3 * ConfidenceOne
        THEN IF trend_result.trend = "UP"
             THEN << TradingDecision(last_candle.timestamp, "buy", last_candle.close,
                         <<"Tendência de alta", TwoDecimals(trend_result.confidence)>>) >>
             ELSE IF trend_result.trend = "DOWN"
             THEN << TradingDecision(last_candle.timestamp, "sell", last_candle.close,
                         <<"Tendência de queda", TwoDecimals(trend_result.confidence)>>) >>
             ELSE <<>>
        ELSE AnalyzeMomentum(candles_list, last_candle.timestamp, last_candle.close)

\* GenerateTradingDecision.execute: the fetch returns the sequence the
\* caller has assembled
Execute ==
    /\ calls < MaxCalls
    /\ IF candles = <<>>
       THEN /\ decided' = Append(decided, [fetched |-> candles, decisions |-> <<>>])
            /\ UNCHANGED tdVars
       ELSE /\ tdSwings' = DetectorMemory(tdSwings, candles)
            /\ tdResult' = Some(DetectorResult(DetectorMemory(tdSwings, candles)))
            /\ tdInput' = candles
            /\ decided' = Append(decided,
                   [fetched |-> candles,
                    decisions |-> Decisions(candles, DetectorResult(DetectorMemory(tdSwings, candles)))])
    /\ calls' = calls + 1
    /\ UNCHANGED <<candles, fed, tiVars, liqEngineVars, mergeVars, cacheVars, routeVars, windowVars>>

DecisionNext ==
    TrendFeed \/ TrendNewInput \/ Execute

\* ------------------------------------------------- claims on the trend engines

\* C3: TrendIndicator.analyze on fewer than 2 * lookback_bars + 1 candles
\* returns trend UNDEFINED, confidence 0 and no swings, whatever swings, BOS
\* or trend the engine holds from earlier calls.
C3_IndicatorShortInputUndefined ==
    (tiSignal # None /\ Len(tiInput) < 2 * lookback_bars + 1) =>
        /\ tiSignal[1].trend = "UNDEFINED"
        /\ tiSignal[1].confidence = 0
        /\ tiSignal[1].swings = <<>>

\* a short call answered by an engine that holds swings and a trend from an
\* earlier call
C3_Witness ==
    /\ tiSignal # None
    /\ tiInput # <<>>
    /\ Len(tiInput) < 2 * lookback_bars + 1
    /\ tiSwings # <<>>
    /\ tiCurrentTrend # "UNDEFINED"
    /\ tiSignal[1].swings = <<>>

\* C4: TrendDetector.analyze on fewer than 2 candles returns trend UNDEFINED
\* with confidence 0 (or the floor 0.25) and no swings, in every state of the
\* detector, also after earlier calls have stored swings.
C4_DetectorShortInputUndefined ==
    (tdResult # None /\ Len(tdInput) < 2) =>
        /\ tdResult[1].trend = "UNDEFINED"
        /\ tdResult[1].confidence \in {0, 2500}
        /\ tdResult[1].last_swings = <<>>

\* the prices of a list of swings, oldest first
PricesOf(swings) == [k \in 1..Len(swings) |-> swings[k].price]

\* at least two prices, each above (below) the one before it by more than
\* per_mille thousandths of it
StrictlyRising(prices, per_mille) ==
    /\ Len(prices) >= 2
    /\ \A k \in 2..Len(prices) :
           (prices[k] - prices[k - 1]) * 1000 > per_mille * prices[k - 1]

StrictlyFalling(prices, per_mille) ==
    /\ Len(prices) >= 2
    /\ \A k \in 2..Len(prices) :
           (prices[k - 1] - prices[k]) * 1000 > per_mille * prices[k - 1]

IsHighType(s) == s.type = "HIGH"
IsLowType(s) == s.type = "LOW"

\* the first call on a fresh TrendDetector found rising (falling) swings
DetectorSawRising ==
    /\ calls = 1 /\ tdResult # None
    /\ StrictlyRising(PricesOf(SelectSeq(tdResult[1].last_swings, IsHighType)), td_min_percent_move_x1000)
    /\ StrictlyRising(PricesOf(SelectSeq(tdResult[1].last_swings, IsLowType)), td_min_percent_move_x1000)

DetectorSawFalling ==
    /\ calls = 1 /\ tdResult # None
    /\ StrictlyFalling(PricesOf(SelectSeq(tdResult[1].last_swings, IsHighType)), td_min_percent_move_x1000)
    /\ StrictlyFalling(PricesOf(SelectSeq(tdResult[1].last_swings, IsLowType)), td_min_percent_move_x1000)

\* the first call on a fresh TrendIndicator found rising (falling) swings
IndicatorSawRising ==
    /\ calls = 1 /\ tiSignal # None
    /\ StrictlyRising(PricesOf(SelectSeq(tiSignal[1].swings, IsHigh)), ti_min_percent_move_x1000)
    /\ StrictlyRising(PricesOf(SelectSeq(tiSignal[1].swings, IsLow)), ti_min_percent_move_x1000)

IndicatorSawFalling ==
    /\ calls = 1 /\ tiSignal # None
    /\ StrictlyFalling(PricesOf(SelectSeq(tiSignal[1].swings, IsHigh)), ti_min_percent_move_x1000)
    /\ StrictlyFalling(PricesOf(SelectSeq(tiSignal[1].swings, IsLow)), ti_min_percent_move_x1000)

\* C8 (as amended): on a candle sequence whose swing highs and swing lows are
\* strictly rising, each by more than the significance threshold, a fresh
\* TrendDetector (the zigzag variant, max_swings = 12) reports UP with
\* confidence > 0.5, and DOWN with confidence > 0.5 when they are strictly
\* falling.
C8_DetectorRisingSwingsTrend ==
    /\ DetectorSawRising =>
           tdResult[1].trend = "UP" /\ tdResult[1].confidence * 2 > ConfidenceOne
    /\ DetectorSawFalling =>
           tdResult[1].trend = "DOWN" /\ tdResult[1].confidence * 2 > ConfidenceOne

\* a fresh TrendDetector has reported UP on two rising highs and two rising lows
C8_Witness ==
    /\ DetectorSawRising
    /\ tdResult[1].trend = "UP"
    /\ Len(tdResult[1].last_swings) >= 4

\* C8 (as stated): on strictly rising swing highs and lows a fresh trend
\* engine, of either variant, reports UP with confidence > 0.5, and DOWN with
\* confidence > 0.5 on strictly falling ones.
C8_EveryEngineAboveHalf ==
    /\ DetectorSawRising =>
           tdResult[1].trend = "UP" /\ tdResult[1].confidence * 2 > ConfidenceOne
    /\ DetectorSawFalling =>
           tdResult[1].trend = "DOWN" /\ tdResult[1].confidence * 2 > ConfidenceOne
    /\ IndicatorSawRising =>
           tiSignal[1].trend = "UP" /\ tiSignal[1].confidence * 2 > ConfidenceOne
    /\ IndicatorSawFalling =>
           tiSignal[1].trend = "DOWN" /\ tiSignal[1].confidence * 2 > ConfidenceOne

\* no two adjacent swings of the list have the same type
Alternating(swings) ==
    \A k \in 2..Len(swings) : swings[k].type # swings[k - 1].type

\* C17: the zigzag extractor yields strictly alternating HIGH/LOW swings: in
\* the list _detect_swings produces for the candle sequence at hand, and in
\* the detector's swing memory after any sequence of analyze calls, with
\* replaced, rejected and evicted swings, no two adjacent swings have the
\* same type.
C17_SwingsAlternate ==
    /\ Alternating(DetectSwings(candles))
    /\ Alternating(tdSwings)
    /\ tdResult # None => Alternating(tdResult[1].last_swings)

\* a full memory after two calls: the second call detected fewer swings than
\* the memory holds, and the oldest swing of the first call has been evicted
C17_Witness ==
    /\ tdResult # None
    /\ calls = MaxCalls
    /\ Len(tdSwings) = td_max_swings
    /\ Len(DetectSwings(tdInput)) \in 2..(td_max_swings - 1)
    /\ tdSwings[1].index > 0

\* the last candle closes strictly above the most recent swing high of the
\* memory, by at least min_percent_move of that swing's price
BullishBreak(mem, cs) ==
    /\ LastSwingHigh(mem) # None
    /\ cs[Len(cs)].close > LastSwingHigh(mem)[1].price
    /\ IsSignificantMove(LastSwingHigh(mem)[1].price, cs[Len(cs)].close)

\* the last candle closes strictly below the most recent swing low of the
\* memory, by at least min_percent_move of that swing's price
BearishBreak(mem, cs) ==
    /\ LastSwingLow(mem) # None
    /\ cs[Len(cs)].close < LastSwingLow(mem)[1].price
    /\ IsSignificantMove(LastSwingLow(mem)[1].price, cs[Len(cs)].close)

\* C18: BOS detection is symmetric.  In every TrendIndicator.analyze call
\* that updates the swing memory, a last close strictly above the most recent
\* swing high in memory, with a significant move from its price, records a
\* BULLISH BOS and sets the current trend UP, and a last close strictly below
\* the most recent swing low, with a significant move, records a BEARISH BOS
\* and sets the current trend DOWN.
C18_BosSymmetric ==
    [][(IndicatorAnalyze /\ ~IsShortTrendInput(candles)) =>
          /\ BullishBreak(tiSwings', candles) =>
                 /\ tiLastBos' = Some(BreakOfStructure("BULLISH", LastSwingHigh(tiSwings')[1], candles))
                 /\ tiCurrentTrend' = "UP"
          /\ BearishBreak(tiSwings', candles) =>
                 /\ tiLastBos' = Some(BreakOfStructure("BEARISH", LastSwingLow(tiSwings')[1], candles))
                 /\ tiCurrentTrend' = "DOWN"]_vars

\* the direction of the last confirmed BOS, UNDEFINED without one
BosDirection(last_bos) ==
    IF last_bos = None THEN "UNDEFINED"
    ELSE IF last_bos[1].type = "BULLISH" THEN "UP" ELSE "DOWN"

\* the precedence order of the trend decision over the swings considered: UP
\* when the last of at least two highs is labelled higher and the last of at
\* least two lows is labelled higher, DOWN when both are labelled lower, else
\* the direction of the last BOS, else UNDEFINED
TrendByPrecedence(considered, last_bos) ==
    LET highs == SelectSeq(considered, IsHigh)
        lows == SelectSeq(considered, IsLow)
        both == Len(highs) >= 2 /\ Len(lows) >= 2
    IN  IF both /\ highs[Len(highs)].classification = "HH"
                /\ lows[Len(lows)].classification = "HL"
        THEN "UP"
        ELSE IF both /\ highs[Len(highs)].classification = "LH"
                     /\ lows[Len(lows)].classification = "LL"
        THEN "DOWN"
        ELSE BosDirection(last_bos)

\* the last six swings of the memory
RecentSwings(mem) == SubSeq(mem, Max(1, Len(mem) - 5), Len(mem))

\* TrendIndicator.analyze has answered a call that was long enough to analyse
IndicatorAnswered == tiSignal # None /\ ~IsShortTrendInput(tiInput)

\* C19 (as stated): TrendIndicator decides the trend in this precedence order
\* over its swing memory: UP when the last two swing highs and the last two
\* swing lows both show a higher progression, DOWN when both show a lower
\* progression, otherwise the direction of the last confirmed BOS, otherwise
\* UNDEFINED.
C19_TrendPrecedence ==
    IndicatorAnswered =>
        tiSignal[1].trend = TrendByPrecedence(tiSignal[1].swings, tiSignal[1].last_bos)

\* C19 (as amended): the same precedence order, with the highs and lows
\* taken among the last six swings of the memory only.
C19_TrendPrecedenceRecent ==
    IndicatorAnswered =>
        tiSignal[1].trend = TrendByPrecedence(RecentSwings(tiSignal[1].swings), tiSignal[1].last_bos)

\* a memory of more than six swings whose last six decide DOWN against a
\* BULLISH last BOS
C19_Witness ==
    /\ IndicatorAnswered
    /\ Len(tiSignal[1].swings) > 6
    /\ tiSignal[1].last_bos # None
    /\ tiSignal[1].last_bos[1].type = "BULLISH"
    /\ tiSignal[1].trend = "DOWN"

\* C20: trading decisions are deterministic: two GenerateTradingDecision.execute
\* calls that fetch the same candle sequence return the same list of
\* decisions (type, price, time and text), whichever executions ran before
\* them on the shared TrendDetector.
C20_DecisionsDeterministic ==
    \A i, j \in 1..Len(decided) :
        decided[i].fetched = decided[j].fetched =>
            decided[i].decisions = decided[j].decisions

\* the swing shares the candle index and the high/low type of the newest
\* memory entry
SharesNewest(mem, swing) ==
    /\ mem # <<>>
    /\ mem[Len(mem)].index = swing.index
    /\ IsHigh(mem[Len(mem)]) = IsHigh(swing)

\* the swings analyze(cs) classifies and hands to _register_swing, in order
Classified(mem, cs) == ClassifySwings(mem, DetectSwingPoints(cs), cs)

\* the replacement rule, for one swing registered into a memory
RegisteredByRule(mem, swing) ==
    LET after == RegisterSwingPoint(mem, swing)
        newest == mem[Len(mem)]
    IN  IF SharesNewest(mem, swing)
        THEN /\ Len(after) <= Len(mem)
             /\ after # mem =>
                   /\ \/ IsHigh(swing) /\ swing.price >= newest.price
                      \/ IsLow(swing) /\ swing.price <= newest.price
                   /\ after = Append(SubSeq(mem, 1, Len(mem) - 1), swing)
        ELSE \/ after = Append(mem, swing)
             \/ Len(mem) = ti_max_swings /\ after = Append(Tail(mem), swing)

\* C21: the memory replacement rule of TrendIndicator.  In every analyze
\* call, each classified swing that shares index and type with the newest
\* memory entry replaces it only if it is more extreme (a high that is not
\* lower, a low that is not higher) and never makes the memory longer; each
\* other swing is appended as a new entry; and the memory the call leaves is
\* the result of these registrations.
C21_ReplacementRule ==
    [][(IndicatorAnalyze /\ ~IsShortTrendInput(candles)) =>
          /\ \A k \in 1..Len(Classified(tiSwings, candles)) :
                 RegisteredByRule(
                     RegisterSwingPoints(tiSwings,
                         SubSeq(Classified(tiSwings, candles), 1, k - 1)),
                     Classified(tiSwings, candles)[k])
          /\ tiSwings' = RegisterSwingPoints(tiSwings, Classified(tiSwings, candles))]_vars

\* a memory of one swing labelled higher high: the swing it was compared with
\* had the same index and has been replaced by it
C21_Witness ==
    /\ calls = MaxCalls
    /\ Len(tiSwings) = 1
    /\ tiSwings[1].classification = "HH"

\* no two entries of the memory have the same candle index and the same
\* high/low type
NoDuplicateSwings(mem) ==
    \A a, b \in 1..Len(mem) :
        (a # b /\ mem[a].index = mem[b].index) => IsHigh(mem[a]) # IsHigh(mem[b])

\* C22: re-analysis is idempotent on the swing memory.  A TrendIndicator.analyze
\* call on the candle sequence of the call before it, with the memory as that
\* call left it, leaves the memory equal, and so without two entries for the
\* same candle index and the same high/low type.
C22_ReanalysisIdempotent ==
    [][(/\ IndicatorAnalyze
        /\ ~IsShortTrendInput(candles)
        /\ tiSignal # None
        /\ tiInput = candles
        /\ tiSwings = tiSignal[1].swings
        /\ NoDuplicateSwings(tiSwings)) =>
          /\ tiSwings' = tiSwings
          /\ NoDuplicateSwings(tiSwings')]_vars

\* the merge condition of the pass for two zones, taken either way round: the
\* time they share is more than half of one of them, and their prices overlap
MergeCondition(a, b) ==
    LET shared == Min(a.end_time, b.end_time) - Max(a.start_time, b.start_time)
    IN  /\ shared > 0
        /\ \/ shared * 2 > a.end_time - a.start_time
           \/ shared * 2 > b.end_time - b.start_time
        /\ a.low_price <= b.high_price
        /\ a.high_price >= b.low_price

\* C23: zones that do not satisfy the merge conditions are kept distinct.
\* Every zone given to the merge pass that meets the merge condition with no
\* other zone of the input is in the output of the pass.
C23_UnmergedZonesKept ==
    mergeOnce # None =>
        \A i \in 1..Len(mergeIn) :
            (\A k \in 1..Len(mergeIn) : k # i => ~MergeCondition(mergeIn[i], mergeIn[k]))
                => \E m \in 1..Len(mergeOnce[1]) : mergeOnce[1][m] = mergeIn[i]

\* ------------------------------------------ _analyze_window on longer windows

MaxWindowCandles == 6

\* The candle shapes of one Wyckoff range (prices in tenths): a wide and two
\* narrow falling candles, a selling climax, an automatic rally, a secondary
\* test and a spring.
WindowPalette ==
    { Bar(1050, 1070, 1030, 1040, 2),
      Bar(1040, 1045, 1035, 1040, 2),
      Bar(1030, 1035, 1020, 1025, 2),
      Bar(1020, 1030, 960, 980, 16),
      Bar(970, 1000, 965, 995, 8),
      Bar(975, 980, 965, 975, 2),
      Bar(975, 985, 945, 975, 2) }

\* the caller appends the next candle of the window, one minute after the previous one
WindowFeed ==
    /\ Len(windowCandles) < MaxWindowCandles
    /\ \E bar \in WindowPalette : windowCandles' = Append(windowCandles, Stamp(bar, Len(windowCandles)))
    /\ windowZone' = None
    /\ UNCHANGED <<liqVars, mergeVars, trendVars, cacheVars, routeVars, decisionVars>>

\* LiquidityIndicator._analyze_window(candles, 0, len(candles))
WindowAnalyze ==
    /\ Len(windowCandles) >= min_candles_in_zone
    /\ windowZone' = Some(AnalyzeWindow(windowCandles, 0, Len(windowCandles)))
    /\ UNCHANGED windowCandles
    /\ UNCHANGED <<liqVars, mergeVars, trendVars, cacheVars, routeVars, decisionVars>>

WindowNext == WindowFeed \/ WindowAnalyze

\* the events _analyze_window finds in a window, by the names of its locals
sc_idx(w) == FindSellingClimax(w)
ps_idx(w) == FindPreliminarySupport(w, sc_idx(w))
ar_idx(w) == FindAutomaticRally(w, sc_idx(w))
st_indexes(w) == SecondaryTests(w, ar_idx(w), w[sc_idx(w)].low, w[sc_idx(w)].volume)
spring_idx(w) ==
    FindSpring(w, w[sc_idx(w)].low, w[sc_idx(w)].volume,
               IF st_indexes(w) # {} THEN SetMin(st_indexes(w)) ELSE ar_idx(w))

\* the window was analysed and _analyze_window returned a zone
ZoneReturned == windowZone # None /\ windowZone[1] # None

\* C24: in every window for which _analyze_window returns a zone, the
\* Automatic Rally comes after the Selling Climax and at most
\* max_candles_sc_to_ar candles later, at least min_secondary_tests Secondary
\* Tests lie strictly after the Automatic Rally, each with volume at most
\* st_volume_contraction times the Selling Climax volume, a Preliminary
\* Support (if found) lies before the Selling Climax, and a Spring (if found)
\* lies no earlier than the first Secondary Test.
C24_WyckoffOrder ==
    ZoneReturned =>
        /\ sc_idx(windowCandles) # NoIdx /\ ar_idx(windowCandles) # NoIdx
        /\ sc_idx(windowCandles) < ar_idx(windowCandles)
        /\ ar_idx(windowCandles) - sc_idx(windowCandles) <= max_candles_sc_to_ar
        /\ Cardinality(st_indexes(windowCandles)) >= min_secondary_tests
        /\ \A i \in st_indexes(windowCandles) :
               /\ i > ar_idx(windowCandles)
               /\ windowCandles[i].volume * 10
                      <= st_volume_contraction_x10 * windowCandles[sc_idx(windowCandles)].volume
        /\ ps_idx(windowCandles) # NoIdx => ps_idx(windowCandles) < sc_idx(windowCandles)
        /\ spring_idx(windowCandles) # NoIdx => spring_idx(windowCandles) >= SetMin(st_indexes(windowCandles))

C24_Witness ==
    /\ ZoneReturned
    /\ ps_idx(windowCandles) # NoIdx
    /\ spring_idx(windowCandles) # NoIdx

\* the candles whose high (low) lies within 15% of the zone height from the
\* top (bottom) boundary, on either side of it
NearTop(w, high, low) ==
    {i \in 1..Len(w) : Abs(high - w[i].high) * 100 <= (high - low) * 15}

NearBottom(w, high, low) ==
    {i \in 1..Len(w) : Abs(w[i].low - low) * 100 <= (high - low) * 15}

\* C25: for a returned zone, the boundary-touch count _count_boundary_touches
\* gives for its window equals the minimum of the number of candles whose high
\* lies within 15% of the zone height from the top boundary and the number of
\* candles whose low lies within 15% of the zone height from the bottom
\* boundary, and that count is at least min_boundary_touches.
C25_BoundaryTouchCount ==
    ZoneReturned =>
        LET zone == windowZone[1][1]
            touches == CountBoundaryTouches(windowCandles, zone.high_price, zone.low_price)
        IN  /\ touches = Min(Cardinality(NearTop(windowCandles, zone.high_price, zone.low_price)),
                             Cardinality(NearBottom(windowCandles, zone.high_price, zone.low_price)))
            /\ touches >= min_boundary_touches

\* ------------------------------------------- the trend engines on quiet candles
\* Candles two per cent up or down, wide ones and ones whose high and low stay
\* within the significance threshold of their close: a first candle of the
\* latter kind is a swing the detector does not take into its memory.

MaxQuietCandles == 5

QuietMoves == { <<20, 3>>, <<-20, 3>>, <<20, 30>>, <<-20, 30>> }

\* the caller appends the next candle, one minute after the previous one
QuietFeed ==
    /\ fed < MaxQuietCandles
    /\ \E mv \in QuietMoves :
          LET base == IF candles = <<>> THEN BasePrice ELSE candles[Len(candles)].close
          IN  candles' = Append(candles, Stamp(MoveBar(base, mv), Len(candles)))
    /\ fed' = fed + 1
    /\ UNCHANGED <<trendVars, notTrendVars>>

QuietNext == QuietFeed \/ TrendNewInput \/ IndicatorAnalyze \/ DetectorAnalyze

\* the confidence a trend engine may return with a trend and a swing memory,
\* by the fixed floor: within [0,1], and for an UNDEFINED trend 0 on an
\* empty memory and 0.25 on any other
WithinFloor(trend, confidence, mem) ==
    /\ confidence \in 0..ConfidenceOne
    /\ trend = "UNDEFINED" => confidence = (IF mem = <<>> THEN 0 ELSE 2500)

\* 0.3 + 0.3 * len(memory) / max_swings, plus 0.2 or nothing
AboveBase(confidence, mem) ==
    confidence - 3000 - (3000 * Min(Len(mem), ti_max_swings)) \div ti_max_swings \in {0, 2000}

FullNext == ZigFeed \/ TrendNewInput \/ IndicatorAnalyze \/ DetectorAnalyze

\* what registering one swing may do to a memory of capacity max_len: leave
\* it, put the swing in the place of the newest entry, or append the swing,
\* which on a full memory drops the oldest entry and keeps the others in order
MemoryStep(before, after, swing, max_len) ==
    /\ Len(after) <= max_len
    /\ \/ after = before
       \/ before # <<>> /\ after = Append(SubSeq(before, 1, Len(before) - 1), swing)
       \/ Len(before) < max_len /\ after = Append(before, swing)
       \/ Len(before) = max_len /\ after = Append(Tail(before), swing)

\* C27: after every analyze call of either trend engine the swing memory holds
\* at most max_swings swings, and each swing the call registers leaves the
\* memory as it was, replaces the newest entry, or is appended, in which case
\* a full memory loses its oldest entry and keeps the order of the others.
C27_BoundedFifo ==
    [][/\ DetectorAnalyze =>
              LET found == DetectSwings(candles)
                  anchor_price == IF candles # <<>> THEN Some(candles[1].close) ELSE None
                  registered(k) == RegisterSwings(tdSwings, SubSeq(found, 1, k), anchor_price)
              IN  /\ \A k \in 1..Len(found) :
                         MemoryStep(registered(k - 1), registered(k), found[k], td_max_swings)
                  /\ tdSwings' = registered(Len(found))
                  /\ Len(tdSwings') <= td_max_swings
       /\ (IndicatorAnalyze /\ ~IsShortTrendInput(candles)) =>
              LET found == Classified(tiSwings, candles)
                  registered(k) == RegisterSwingPoints(tiSwings, SubSeq(found, 1, k))
              IN  /\ \A k \in 1..Len(found) :
                         MemoryStep(registered(k - 1), registered(k), found[k], ti_max_swings)
                  /\ tiSwings' = registered(Len(found))
                  /\ Len(tiSwings') <= ti_max_swings]_vars

\* the indicator's memory is full after its second call and its oldest entry
\* is labelled against an earlier swing: the first swings of the first call
\* have been evicted
C27_Witness ==
    /\ tiSignal # None
    /\ calls = MaxCalls
    /\ Len(tiSwings) = ti_max_swings
    /\ tiSwings[1].classification \notin {"SH", "SL"}

\* --------------------------------------------- analyze on degenerate candles
\* Eleven candles, so that analyze looks at two windows: candles 0..2, which
\* may have no range (high = low), no volume, or closes that sum to zero, and
\* candles 8..10, a climax, a rally and a test after three falling candles.

MaxDegenerateCandles == 11

DegenerateScript ==
    << { Bar(0, 0, 0, 0, 0), Bar(1040, 1040, 1040, 1040, 2),
         Bar(1040, 1045, 1035, 1040, 0), Bar(150, 160, -40, -30, 16) },
       { Bar(0, 0, 0, 0, 0), Bar(1020, 1020, 1020, 1020, 2),
         Bar(1030, 1035, 1020, 1025, 0), Bar(-45, 50, -50, 40, 8) },
       { Bar(0, 0, 0, 0, 0), Bar(1000, 1000, 1000, 1000, 2),
         Bar(1020, 1030, 960, 980, 0), Bar(-5, 0, -55, -10, 2) },
       { Bar(1100, 1105, 1095, 1100, 2) },
       { Bar(1100, 1105, 1095, 1100, 2) },
       { Bar(1060, 1065, 1055, 1060, 2) },
       { Bar(1050, 1055, 1045, 1050, 2) },
       { Bar(1040, 1045, 1035, 1040, 2) },
       { Bar(1020, 1030, 960, 980, 16) },
       { Bar(970, 1000, 965, 995, 8) },
       { Bar(975, 980, 965, 975, 2), Bar(0, 0, 0, 0, 0) } >>

\* the caller appends the next candle, one minute after the previous one
DegenerateFeed ==
    /\ fed < MaxDegenerateCandles
    /\ fed < Len(DegenerateScript)
    /\ Len(candles) = fed
    /\ \E bar \in DegenerateScript[fed + 1] :
          candles' = Append(candles, Stamp(bar, Len(candles)))
    /\ fed' = fed + 1
    /\ UNCHANGED <<liqZones, liqSignal, liqInput, liqHeld>>
    /\ UNCHANGED notLiqVars

DegenerateNext == DegenerateFeed \/ LiqAnalyze

\* the windows the two range() loops of _detect_accumulation_zones visit, as
\* <<start_idx, end_idx>>
VisitedWindows(cs) ==
    LET min_window == min_candles_in_zone
        max_window == Max(min_window, Min(Len(cs), min_window * 4))
        step == Max(min_window \div 3, 8)
    IN  {se \in (0..Len(cs)) \X (0..Len(cs)) :
            /\ se[1] % step = 0
            /\ se[2] - se[1] \in min_window..max_window
            /\ (se[2] - se[1] - min_window) % 10 = 0
            /\ se[1] < Len(cs) - (se[2] - se[1]) + 1}

\* a division of _analyze_window or _calculate_zone_strength divides by zero
\* (decimal.DivisionByZero, decimal.InvalidOperation or ZeroDivisionError):
\* lines 276, 311-312 and 553 are reached only past their own test of the
\* divisor, line 205 past the avg_price guard, lines 521-536 with every zone
WindowRaises(cs, start_idx, end_idx) ==
    LET window == Slice(cs, start_idx, end_idx)
    IN  IF Len(window) < min_candles_in_zone THEN FALSE
        ELSE IF ~HasPreviousDowntrend(cs, start_idx) THEN FALSE
        ELSE IF FindSellingClimax(window) = NoIdx THEN FALSE
        ELSE IF FindAutomaticRally(window, FindSellingClimax(window)) = NoIdx THEN FALSE
        ELSE IF DegenerateRange(window[FindAutomaticRally(window, FindSellingClimax(window))].high,
                                window[FindSellingClimax(window)].low) THEN FALSE
        ELSE IF ZeroAveragePrice(window) THEN FALSE
        ELSE IF SumClose(window) = 0 THEN TRUE
        ELSE IF AnalyzeWindow(cs, start_idx, end_idx) = None THEN FALSE
        ELSE \/ max_range_percent_x10 = 0
             \/ min_candles_in_zone * 3 - min_candles_in_zone = 0
             \/ min_boundary_touches * 3 - min_boundary_touches = 0

AnalyzeRaises(cs) ==
    /\ ~IsShortInput(cs)
    /\ \E se \in VisitedWindows(cs) : WindowRaises(cs, se[1], se[2])

\* a window with no price range, no volume or a zero average close
DegenerateWindow(window) ==
    SumRange(window) = 0 \/ SumVolume(window) = 0 \/ SumClose(window) = 0

\* the zones of the windows that are not degenerate, in the order of the
\* loops (windows of min_candles_in_zone candles, the one size the loops
\* take on fewer than min_candles_in_zone + 10 candles)
RECURSIVE SoundZones(_, _)
SoundZones(cs, start_idx) ==
    IF start_idx > Len(cs) THEN <<>>
    ELSE (IF \E se \in VisitedWindows(cs) : se[1] = start_idx /\ ~DegenerateWindow(Slice(cs, se[1], se[2]))
          THEN AnalyzeWindow(cs, start_idx, start_idx + min_candles_in_zone)
          ELSE <<>>)
         \o SoundZones(cs, start_idx + 1)

\* C28: on candles with degenerate windows LiquidityIndicator.analyze divides
\* by zero nowhere, every window without price range, without volume or with
\* a zero average close yields no zone, and the returned signal is the one
\* built from the other windows.
C28_DegenerateSkipped ==
    (liqSignal # None /\ liqInput = candles) =>
        /\ ~AnalyzeRaises(candles)
        /\ \A se \in VisitedWindows(candles) :
               DegenerateWindow(Slice(candles, se[1], se[2]))
                   => AnalyzeWindow(candles, se[1], se[2]) = None
        /\ ~IsShortInput(candles) =>
               liqSignal[1].accumulation_zones = FilteredZones(SoundZones(candles, 0))

\* analyze has looked at a degenerate first window that follows a downtrend,
\* and returned the zone of the second window
C28_Witness ==
    /\ liqSignal # None /\ liqInput = candles
    /\ Len(candles) = MaxDegenerateCandles
    /\ DegenerateWindow(Slice(candles, 0, min_candles_in_zone))
    /\ HasPreviousDowntrend(candles, 0)
    /\ Len(liqSignal[1].accumulation_zones) = 1

\* C29: after every LiquidityIndicator.analyze call, on too few candles as on
\* enough of them, the zones the engine holds (its zones property) are the
\* accumulation_zones of the signal the call returned.
C29_ZonesAreLastSignal ==
    [][LiqAnalyze => liqZones' = liqSignal'[1].accumulation_zones]_vars

\* C30: a zone _analyze_window returns starts before it ends, and its
\* candle_count is the number of the analysed candles whose timestamps lie
\* between its start_time and its end_time, both included.
C30_CandleCountIsSpan ==
    ZoneReturned =>
        LET zone == windowZone[1][1]
        IN  /\ zone.start_time < zone.end_time
            /\ zone.candle_count =
                   Cardinality({i \in 1..Len(windowCandles) :
                                   /\ windowCandles[i].timestamp >= zone.start_time
                                   /\ windowCandles[i].timestamp <= zone.end_time})

\* --------------------------------------------------------------- CandleCache
\* infrastructure/storage/cache/candle_cache.py.  Text is a sequence of
\* one-character strings; a Decimal is its sign, coefficient and exponent; a
\* datetime is its fields.  The cache file is kept as the dict json.loads
\* returns for what json.dumps wrote.

DigitChars == <<"0", "1", "2", "3", "4", "5", "6", "7", "8", "9">>

DigitValue(c) == CHOOSE d \in 0..9 : DigitChars[d + 1] = c

IsDigit(c) == \E d \in 0..9 : DigitChars[d + 1] = c

\* the decimal digits of a natural number, without leading zeros
RECURSIVE Digits(_)
Digits(n) ==
    IF n < 10 THEN <<DigitChars[n + 1]>>
    ELSE Digits(n \div 10) \o <<DigitChars[(n % 10) + 1]>>

\* int(text) for a text of digits
RECURSIVE ToNat(_)
ToNat(text) ==
    IF text = <<>> THEN 0
    ELSE ToNat(SubSeq(text, 1, Len(text) - 1)) * 10 + DigitValue(text[Len(text)])

Zeros(n) == [k \in 1..n |-> "0"]

\* the digits of n, zero-padded on the left to the width
Pad(n, width) == Zeros(width - Len(Digits(n))) \o Digits(n)

\* the position of the first c in the text, 0 when there is none
IndexOf(text, c) ==
    IF \E k \in 1..Len(text) : text[k] = c
    THEN CHOOSE k \in 1..Len(text) : text[k] = c /\ \A j \in 1..(k - 1) : text[j] # c
    ELSE 0

Dec(sign, coef, exp) == [sign |-> sign, coef |-> coef, exp |-> exp]

\* str(Decimal): plain notation when the exponent is at most 0 and the value
\* has more than -6 digits left of the point, scientific otherwise
StrDecimal(d) ==
    LET ds == Digits(d.coef)
        n == Len(ds)
        leftdigits == d.exp + n
        dotplace == IF d.exp <= 0 /\ leftdigits > -6 THEN leftdigits ELSE 1
        intpart == IF dotplace <= 0 THEN <<"0">>
                   ELSE IF dotplace >= n THEN ds \o Zeros(dotplace - n)
                   ELSE SubSeq(ds, 1, dotplace)
        fracpart == IF dotplace <= 0 THEN <<".">> \o Zeros(-dotplace) \o ds
                    ELSE IF dotplace >= n THEN <<>>
                    ELSE <<".">> \o SubSeq(ds, dotplace + 1, n)
        e == leftdigits - dotplace
        exppart == IF e = 0 THEN <<>>
                   ELSE <<"E", IF e < 0 THEN "-" ELSE "+">> \o Digits(Abs(e))
    IN  (IF d.sign = 1 THEN <<"-">> ELSE <<>>) \o intpart \o fracpart \o exppart

\* the texts Decimal() accepts: sign, digits with an optional point, exponent
IsDecimalText(text) ==
    LET body == IF text # <<>> /\ text[1] \in {"-", "+"} THEN Tail(text) ELSE text
        epos == IndexOf(body, "E")
        mantissa == IF epos = 0 THEN body ELSE SubSeq(body, 1, epos - 1)
        exptext == IF epos = 0 THEN <<>> ELSE SubSeq(body, epos + 1, Len(body))
        expdigits == IF exptext # <<>> /\ exptext[1] \in {"-", "+"} THEN Tail(exptext)
                     ELSE exptext
        dot == IndexOf(mantissa, ".")
        mdigits == IF dot = 0 THEN mantissa
                   ELSE SubSeq(mantissa, 1, dot - 1) \o SubSeq(mantissa, dot + 1, Len(mantissa))
    IN  /\ mdigits # <<>>
        /\ \A k \in 1..Len(mdigits) : IsDigit(mdigits[k])
        /\ epos # 0 => expdigits # <<>>
        /\ \A k \in 1..Len(expdigits) : IsDigit(expdigits[k])

\* the sign, coefficient and exponent a decimal text denotes
DecimalFields(text) ==
    LET sign == IF text[1] = "-" THEN 1 ELSE 0
        body == IF text[1] \in {"-", "+"} THEN Tail(text) ELSE text
        epos == IndexOf(body, "E")
        mantissa == IF epos = 0 THEN body ELSE SubSeq(body, 1, epos - 1)
        exptext == IF epos = 0 THEN <<>> ELSE SubSeq(body, epos + 1, Len(body))
        expval == IF exptext = <<>> THEN 0
                  ELSE IF exptext[1] = "-" THEN 0 - ToNat(Tail(exptext))
                  ELSE IF exptext[1] = "+" THEN ToNat(Tail(exptext))
                  ELSE ToNat(exptext)
        dot == IndexOf(mantissa, ".")
        intpart == IF dot = 0 THEN mantissa ELSE SubSeq(mantissa, 1, dot - 1)
        fracpart == IF dot = 0 THEN <<>> ELSE SubSeq(mantissa, dot + 1, Len(mantissa))
    IN  <<sign, ToNat(intpart \o fracpart), expval - Len(fracpart)>>

\* the number a decimal text denotes, the trailing zeros of its coefficient
\* moved into the exponent
ParseDecimalNormalized(text) ==
    LET f == DecimalFields(text)
        RECURSIVE StripZeros(_, _)
        StripZeros(coef, exp) ==
            IF coef # 0 /\ coef % 10 = 0 THEN StripZeros(coef \div 10, exp + 1)
            ELSE <<coef, exp>>
        stripped == StripZeros(f[2], f[3])
    IN  Dec(f[1], stripped[1], stripped[2])

\* Decimal(text)
ParseDecimal(text) ==
    LET f == DecimalFields(text)
    IN  Dec(f[1], f[2], f[3])

DateTime(y, mo, d, h, mi, sec, us) ==
    [year |-> y, month |-> mo, day |-> d, hour |-> h, minute |-> mi, second |-> sec,
     microsecond |-> us]

\* datetime.isoformat() of a naive datetime
IsoFormat(t) ==
    Pad(t.year, 4) \o <<"-">> \o Pad(t.month, 2) \o <<"-">> \o Pad(t.day, 2) \o <<"T">>
    \o Pad(t.hour, 2) \o <<":">> \o Pad(t.minute, 2) \o <<":">> \o Pad(t.second, 2)
    \o (IF t.microsecond # 0 THEN <<".">> \o Pad(t.microsecond, 6) ELSE <<>>)

\* datetime.fromisoformat for the texts isoformat writes
FromIsoFormat(text) ==
    DateTime(ToNat(SubSeq(text, 1, 4)), ToNat(SubSeq(text, 6, 7)), ToNat(SubSeq(text, 9, 10)),
             ToNat(SubSeq(text, 12, 13)), ToNat(SubSeq(text, 15, 16)),
             ToNat(SubSeq(text, 18, 19)),
             IF Len(text) > 19 THEN ToNat(SubSeq(text, 21, 26)) ELSE 0)

\* domain/value_objects/timeframe.py: the members used and their values
Timeframes == {"ONE_MINUTE", "FIVE_MINUTES"}

TimeframeValue(tf) == IF tf = "ONE_MINUTE" THEN "1min" ELSE "5min"

\* Timeframe(value)
TimeframeOf(value) == CHOOSE tf \in Timeframes : TimeframeValue(tf) = value

\* CandleCache._build_key
BuildKey(symbol, timeframe, count) ==
    symbol \o "_" \o TimeframeValue(timeframe) \o "_" \o ToString(count)

\* CandleCache._serialize_candle
SerializeCandle(candle) ==
    [symbol |-> candle.symbol,
     timeframe |-> TimeframeValue(candle.timeframe),
     timestamp |-> IsoFormat(candle.timestamp),
     open |-> StrDecimal(candle.open),
     high |-> StrDecimal(candle.high),
     low |-> StrDecimal(candle.low),
     close |-> StrDecimal(candle.close),
     volume |-> StrDecimal(candle.volume)]

\* CandleCache._deserialize_candle
DeserializeCandle(data) ==
    [symbol |-> data.symbol,
     timeframe |-> TimeframeOf(data.timeframe),
     timestamp |-> FromIsoFormat(data.timestamp),
     open |-> ParseDecimal(data.open),
     high |-> ParseDecimal(data.high),
     low |-> ParseDecimal(data.low),
     close |-> ParseDecimal(data.close),
     volume |-> ParseDecimal(data.volume)]

\* _deserialize_candle raises ValueError on this item
Undecodable(data) ==
    \/ data.timeframe \notin {TimeframeValue(tf) : tf \in Timeframes}
    \/ \E text \in {data.open, data.high, data.low, data.close, data.volume} :
           ~IsDecimalText(text)

\* CandleCache.get on the parsed file: None, or Some(list of candles)
CacheGet(cache, key) ==
    IF key \notin DOMAIN cache THEN None
    ELSE LET items == cache[key].candles
         IN  IF \E k \in 1..Len(items) : Undecodable(items[k]) THEN None
             ELSE Some([k \in 1..Len(items) |-> DeserializeCandle(items[k])])

\* the entry CandleCache.set stores under the key
CacheEntry(stored_at, candle_list) ==
    [stored_at |-> IsoFormat(stored_at),
     candles |-> [k \in 1..Len(candle_list) |-> SerializeCandle(candle_list[k])]]

\* CandleCache.set on the parsed file
CacheSet(cache, key, stored_at, candle_list) ==
    (key :> CacheEntry(stored_at, candle_list)) @@ cache

\* ------------------------------------------- the cache and the controller at work

MaxClock == 2

\* datetime.utcnow() at clock reading ms
UtcNow(ms) == DateTime(2024, 1, 1, 0, 0, 0, ms * 1000)

CacheCandle(symbol, timeframe, timestamp, o, h, l, c, v) ==
    [symbol |-> symbol, timeframe |-> timeframe, timestamp |-> timestamp,
     open |-> o, high |-> h, low |-> l, close |-> c, volume |-> v]

\* the candle of tests/test_candle_cache.py: 1.0, 1.1, 0.9, 1.05, 100
TestCandle ==
    CacheCandle("TEST", "ONE_MINUTE", DateTime(2024, 1, 1, 0, 0, 0, 0),
                Dec(0, 10, -1), Dec(0, 11, -1), Dec(0, 9, -1), Dec(0, 105, -2), Dec(0, 100, 0))

\* 1E+2, 1.25E+4, 1E-7, 0.000001, -0
WideCandle ==
    CacheCandle("TEST", "FIVE_MINUTES", DateTime(2024, 12, 31, 23, 59, 59, 999999),
                Dec(0, 1, 2), Dec(0, 125, 2), Dec(0, 1, -7), Dec(0, 1, -6), Dec(1, 0, 0))

\* 1.10, 123.456, 0.00, -3.20, 0E+3
PaddedCandle ==
    CacheCandle("EUR/USD", "ONE_MINUTE", DateTime(2024, 2, 29, 9, 30, 5, 1000),
                Dec(0, 110, -2), Dec(0, 123456, -3), Dec(0, 0, -2), Dec(1, 320, -2), Dec(0, 0, 3))

\* the candle lists stored and fetched
CandleLists == { <<>>, <<TestCandle>>, <<PaddedCandle>>, <<TestCandle, WideCandle>> }

\* the (symbol, timeframe, count) triples requested
Requests == { <<"TEST", "ONE_MINUTE", 1>>, <<"TEST", "FIVE_MINUTES", 2>> }

RequestKey(r) == BuildKey(r[1], r[2], r[3])

\* CandleCache.set(symbol, timeframe, count, candles)
CacheSetCall ==
    /\ now < MaxClock
    /\ \E r \in Requests, candle_list \in CandleLists :
          /\ cacheFile' = CacheSet(cacheFile, RequestKey(r), UtcNow(now), candle_list)
          /\ written' = (RequestKey(r) :> candle_list) @@ written
    /\ now' = now + 1
    /\ UNCHANGED <<fetchCalls, loaded, lastLatest, notCacheVars>>

\* CandleCache.get(symbol, timeframe, count); stored is the list the last set
\* on the key was given
CacheGetCall ==
    /\ \E r \in Requests :
          loaded' = Some([key |-> RequestKey(r),
                          stored |-> IF RequestKey(r) \in DOMAIN written
                                     THEN Some(written[RequestKey(r)]) ELSE None,
                          result |-> CacheGet(cacheFile, RequestKey(r))])
    /\ UNCHANGED <<cacheFile, now, fetchCalls, written, lastLatest, notCacheVars>>

\* the entry's stored_at, if the key is in the file
StoredAt(cache, key) == IF key \in DOMAIN cache THEN Some(cache[key].stored_at) ELSE None

\* MarketDataController.latest(symbol, timeframe, count); fetched is what the
\* fetch use case would return
Latest(r, fetched) ==
    LET key == RequestKey(r)
        cached == CacheGet(cacheFile, key)
        hit == cached # None /\ cached[1] # <<>>
        stores == ~hit /\ fetched # <<>>
        after == IF stores THEN CacheSet(cacheFile, key, UtcNow(now), fetched) ELSE cacheFile
    IN  /\ cacheFile' = after
        /\ written' = IF stores THEN (key :> fetched) @@ written ELSE written
        /\ fetchCalls' = IF hit THEN fetchCalls ELSE fetchCalls + 1
        /\ lastLatest' = Some([key |-> key,
                               before |-> StoredAt(cacheFile, key),
                               after |-> StoredAt(after, key),
                               cached |-> hit,
                               fetched |-> ~hit,
                               returned |-> IF hit THEN cached[1] ELSE fetched])

ControllerLatest ==
    /\ now < MaxClock
    /\ \E r \in Requests, fetched \in CandleLists : Latest(r, fetched)
    /\ now' = now + 1
    /\ UNCHANGED <<loaded, notCacheVars>>

CacheNext == CacheSetCall \/ CacheGetCall \/ ControllerLatest

\* ------------------------------------------ claims on the cache and controller

\* C9: cache round trip.  CandleCache.get on a key returns a list equal to the
\* one the last CandleCache.set on that key stored: every candle with the
\* same symbol, timeframe, timestamp and decimal open, high, low, close and
\* volume, digit for digit.
C9_CacheRoundTrip ==
    (loaded # None /\ loaded[1].stored # None) =>
        loaded[1].result = Some(loaded[1].stored[1])

\* a two-candle list with scientific and signed-zero decimals has been stored
\* and read back
C9_Witness ==
    /\ loaded # None
    /\ loaded[1].stored = Some(<<TestCandle, WideCandle>>)
    /\ loaded[1].result # None
    /\ Len(loaded[1].result[1]) = 2
    /\ loaded[1].result[1][2].volume = Dec(1, 0, 0)

\* C10: every MarketDataController.latest request rewrites the cache entry of
\* its key, so that the entry's stored_at differs from the one the previous
\* request left, and a request whose key is already cached is served without
\* calling the fetch use case again.
C10_LatestRewritesEntry ==
    (lastLatest # None /\ lastLatest[1].before # None) =>
        /\ lastLatest[1].after # lastLatest[1].before
        /\ lastLatest[1].cached => ~lastLatest[1].fetched

\* ------------------------------------------- the callers of the engines
\* interfaces/api/routes.py and the use cases: which candle list each request
\* hands to which engine.  A candle is its timestamp, in minutes.

MaxRouteCandles == 11

\* the fewest candles the trend and full-analysis routes analyse
route_min_candles == 10

Reverse(s) == [k \in 1..Len(s) |-> s[Len(s) + 1 - k]]

Handed(route, engine, candle_list) ==
    [route |-> route, engine |-> engine, candles |-> candle_list]

\* DetectLiquidityZones.execute: the list it hands to LiquidityIndicator.analyze
DetectOrdered(candle_list) ==
    IF candle_list[1] > candle_list[Len(candle_list)] THEN Reverse(candle_list)
    ELSE candle_list

\* the provider returns one more candle, one or two minutes older than the
\* oldest so far: newest first
RouteFetch ==
    /\ Len(routeFeed) < MaxRouteCandles
    /\ \E gap \in 1..2 :
          routeFeed' = Append(routeFeed,
                              IF routeFeed = <<>> THEN 2 * MaxRouteCandles
                              ELSE routeFeed[Len(routeFeed)] - gap)
    /\ routeHanded' = <<>>
    /\ UNCHANGED notRouteVars

\* GET /api/market-data
GetMarketData ==
    /\ routeFeed # <<>>
    /\ routeHanded' = <<Handed("/api/market-data", "TrendDetector", routeFeed)>>
    /\ UNCHANGED <<routeFeed, notRouteVars>>

\* GET /api/bot/decisions: GenerateTradingDecision.execute
GetDecisions ==
    /\ routeFeed # <<>>
    /\ routeHanded' = <<Handed("/api/bot/decisions", "TrendDetector", routeFeed)>>
    /\ UNCHANGED <<routeFeed, notRouteVars>>

\* GET /api/indicators/trend
GetTrendIndicator ==
    /\ Len(routeFeed) >= route_min_candles
    /\ routeHanded' = <<Handed("/api/indicators/trend", "TrendIndicator", Reverse(routeFeed))>>
    /\ UNCHANGED <<routeFeed, notRouteVars>>

\* GET /api/indicators/liquidity
GetLiquidityIndicator ==
    /\ Len(routeFeed) >= min_candles_in_zone
    /\ routeHanded' = <<Handed("/api/indicators/liquidity", "LiquidityIndicator", DetectOrdered(Reverse(routeFeed)))>>
    /\ UNCHANGED <<routeFeed, notRouteVars>>

\* GET /api/analysis
GetFullAnalysis ==
    /\ Len(routeFeed) >= route_min_candles
    /\ routeHanded' = <<Handed("/api/analysis", "TrendIndicator", Reverse(routeFeed)),
                        Handed("/api/analysis", "LiquidityIndicator", DetectOrdered(Reverse(routeFeed)))>>
    /\ UNCHANGED <<routeFeed, notRouteVars>>

\* DetectLiquidityZones.execute called with the candles in either order
DetectLiquidityZonesExecute ==
    /\ routeFeed # <<>>
    /\ \E candle_list \in {routeFeed, Reverse(routeFeed)} :
          routeHanded' = <<Handed("DetectLiquidityZones.execute", "LiquidityIndicator", DetectOrdered(candle_list))>>
    /\ UNCHANGED <<routeFeed, notRouteVars>>

RouteNext ==
    RouteFetch \/ GetMarketData \/ GetDecisions \/ GetTrendIndicator
    \/ GetLiquidityIndicator \/ GetFullAnalysis \/ DetectLiquidityZonesExecute

OldestFirst(candle_list) ==
    \A k \in 1..(Len(candle_list) - 1) : candle_list[k] < candle_list[k + 1]

\* C14: with a provider that returns candles newest first, every candle
\* sequence the routes and use cases hand to an engine's analyze is ordered
\* oldest first, and DetectLiquidityZones.execute hands over a list whose
\* first timestamp is not after its last.
C14_EnginesReceiveOldestFirst ==
    \A k \in 1..Len(routeHanded) : OldestFirst(routeHanded[k].candles)

\* ------------------------------------------------------------ claims on reset
\* Both engines that have a reset() are driven on the same candle sequences.

\* the climax, rally and test candles of LiqPalette: sequences of them form
\* zones and swings
ResetPalette ==
    { Bar(1010, 1030, 960, 980, 8), Bar(960, 980, 940, 970, 4), Bar(900, 920, 900, 920, 1) }

\* the caller appends the next candle, one minute after the previous one
ResetFeed ==
    /\ fed < MaxCandles
    /\ \E bar \in ResetPalette : candles' = Append(candles, Stamp(bar, Len(candles)))
    /\ fed' = fed + 1
    /\ UNCHANGED <<liqEngineVars, trendVars, mergeVars, cacheVars, routeVars, decisionVars, windowVars>>

ResetNext ==
    ResetFeed \/ LiqNewInput \/ LiqAnalyze \/ LiqReset \/ IndicatorAnalyze \/ IndicatorReset

\* the state TrendIndicator.__init__ leaves
IndicatorIsFresh == tiSwings = <<>> /\ tiLastBos = None /\ tiCurrentTrend = "UNDEFINED"

\* what a freshly constructed TrendIndicator returns for the candles
FreshIndicatorSignal(cs) ==
    IndicatorSignal(IndicatorState(<<>>, None, "UNDEFINED", cs), cs)

\* C13: reset() returns an engine to its initial state.  After
\* TrendIndicator.reset() swing memory is empty, the last BOS is absent and
\* the current trend is UNDEFINED; after LiquidityIndicator.reset() the zone
\* list is empty; and an analyze call made on a reset engine returns what a
\* freshly constructed engine returns for the same candles.
C13_ResetRestoresInitialState ==
    [][/\ IndicatorReset =>
            (tiSwings' = <<>> /\ tiLastBos' = None /\ tiCurrentTrend' = "UNDEFINED")
       /\ LiqReset => liqZones' = <<>>
       /\ (IndicatorIsFresh /\ IndicatorAnalyze) =>
            tiSignal' = Some(FreshIndicatorSignal(candles))
       /\ (liqZones = <<>> /\ LiqAnalyze) =>
            liqSignal' = Some(LiquidityAnalyze(candles))]_vars

\* both engines have held state from an analyze call and have been reset,
\* and a further analyze call can follow
C13_Witness ==
    /\ tiSignal # None
    /\ tiSignal[1].swings # <<>>
    /\ IndicatorIsFresh
    /\ calls < MaxCalls
    /\ liqSignal # None
    /\ liqSignal[1].total_zones > 0
    /\ liqZones = <<>>

\* ------------------------------------------------------------ specifications
\* Each specification drives one component from the state after construction
\* and leaves the others there.

Init ==
    /\ candles = <<>>
    /\ liqZones = <<>>
    /\ liqSignal = None
    /\ liqInput = <<>>
    /\ liqHeld = None
    /\ fed = 0
    /\ mergeIn = <<>>
    /\ mergeOnce = None
    /\ mergeTwice = None
    /\ mergeSignal = None
    /\ tiSwings = <<>>
    /\ tiLastBos = None
    /\ tiCurrentTrend = "UNDEFINED"
    /\ tiSignal = None
    /\ tiInput = <<>>
    /\ tdSwings = <<>>
    /\ tdResult = None
    /\ tdInput = <<>>
    /\ calls = 0
    /\ cacheFile = <<>>
    /\ now = 0
    /\ fetchCalls = 0
    /\ written = <<>>
    /\ loaded = None
    /\ lastLatest = None
    /\ routeFeed = <<>>
    /\ routeHanded = <<>>
    /\ decided = <<>>
    /\ windowCandles = <<>>
    /\ windowZone = None

SpecLiq == Init /\ [][LiqNext]_vars

SpecMerge == Init /\ [][MergeNext]_vars

SpecTrend == Init /\ [][TrendNext]_vars

SpecCache == Init /\ [][CacheNext]_vars

SpecReset == Init /\ [][ResetNext]_vars

SpecRoutes == Init /\ [][RouteNext]_vars

SpecZigzag == Init /\ [][ZigNext]_vars

SpecBos == Init /\ [][BosNext]_vars

SpecStruct == Init /\ [][StructNext]_vars

SpecDecisions == Init /\ [][DecisionNext]_vars

SpecWindow == Init /\ [][WindowNext]_vars

SpecQuiet == Init /\ [][QuietNext]_vars

SpecFull == Init /\ [][FullNext]_vars

SpecDegenerate == Init /\ [][DegenerateNext]_vars

====
